---- MODULE Spec2Model ----
(***************************************************************************)
(* A model of swiftfetch: the fork-join collection of system facts         *)
(* (src/src/lib.rs, src/src/collectors) and the rendering engine           *)
(* (src/src/display.rs).                                                   *)
(*                                                                         *)
(* Text is modelled by TLA+ strings.  The escape byte 0x1b is written ESC. *)
(***************************************************************************)
EXTENDS Integers, Sequences, FiniteSets, Bags, TLC

VARIABLES
    host,       \* collection: the set of host sources whose read fails
    task,       \* collection: status of every node of the fork-join tree
    res,        \* collection: the value each finished node returned
    pool,       \* collection: the bag of worker threads, each with the stack
                \* of nodes it is executing (stk) and its deque of stealable
                \* jobs (dq); workers are interchangeable
    pc,         \* collection: position of the caller of collect_system_info
    ret,        \* collection: what collect_system_info returned
    gpuHost,    \* GPU detection: the DRM sysfs tree and the lspci command
    gpuInfo,    \* GPU detection: the GpuInfo collect_gpu_info returned
    r_config,         \* rendering: the Config passed to render_output
    r_system_data,    \* rendering: the SystemData passed to render_output
    r_files,          \* rendering: the files, terminal and shell it meets
    rendered,         \* rendering: None until render_output has run, then
                      \* what it printed (output), what it wrote to standard
                      \* error (stderr), its item list after the GPU expansion
                      \* (rendered_items) and the artwork lines it paired
                      \* with the items (ascii_lines)
    image_req,  \* kitty: the arguments and environment of render_image
    image_res,  \* kitty: what render_image returned and transmitted
    procs,      \* shell detection: the /proc entries of the processes, by pid
    walk,       \* shell detection: the position of get_shell in its walk
    call,       \* a call of one of the other collector or display functions:
                \* the function and the arguments and environment it meets
    result      \* that call's return value, None until it returned

collectVars == <<host, task, res, pool, pc, ret>>

gpuVars == <<gpuHost, gpuInfo>>

renderVars == <<r_config, r_system_data, r_files, rendered>>

kittyVars == <<image_req, image_res>>

shellVars == <<procs, walk>>

callVars == <<call, result>>

vars ==
    <<host, task, res, pool, pc, ret, gpuHost, gpuInfo, r_config,
      r_system_data, r_files, rendered, image_req, image_res, procs, walk,
      call, result>>

-----------------------------------------------------------------------------
(* Bounds *)

\* worker threads of the pool
NumWorkers == 2

\* configured display items
MaxItems == 2

\* detected GPUs
MaxGpus == 4

\* lines of an artwork file
MaxArtLines == 2

\* chunks of an encoded image
MaxChunks == 3

-----------------------------------------------------------------------------
(* Generic helpers *)

Last(s) == s[Len(s)]

Front(s) == SubSeq(s, 1, Len(s) - 1)

\* Option<T>: None, Some(x)
None == <<>>

Some(x) == <<x>>

\* all sequences over S of length at most n
RECURSIVE SeqsUpTo(_, _)
SeqsUpTo(S, n) ==
    IF n = 0 THEN {<<>>}
    ELSE LET shorter == SeqsUpTo(S, n - 1)
         IN shorter \cup {Append(q, x) : q \in shorter, x \in S}

-----------------------------------------------------------------------------
(* str methods *)

\* s[i..] and s[..j) by 1-based position
From(s, i) == SubSeq(s, i, Len(s))

Upto(s, j) == SubSeq(s, 1, j)

StartsWith(s, p) == Len(s) >= Len(p) /\ SubSeq(s, 1, Len(p)) = p

Occurrences(s, p) ==
    {i \in 1..(Len(s) - Len(p) + 1) : SubSeq(s, i, i + Len(p) - 1) = p}

Contains(s, p) == Occurrences(s, p) # {}

\* str::find and str::rfind: the 1-based position, 0 for None
Find(s, p) ==
    IF Contains(s, p)
    THEN CHOOSE i \in Occurrences(s, p) : \A j \in Occurrences(s, p) : i <= j
    ELSE 0

RFind(s, p) ==
    IF Contains(s, p)
    THEN CHOOSE i \in Occurrences(s, p) : \A j \in Occurrences(s, p) : i >= j
    ELSE 0

\* s.split(p).next(): the text before the first p
BeforeFirst(s, p) == IF Contains(s, p) THEN Upto(s, Find(s, p) - 1) ELSE s

\* s.split(p).last(): the text after the last p
AfterLast(s, p) == IF Contains(s, p) THEN From(s, RFind(s, p) + Len(p)) ELSE s

\* s.split(p).last() for a pattern of several characters: the separators
\* are found from the left, without overlap
RECURSIVE LastPart(_, _)
LastPart(s, p) ==
    IF Contains(s, p) THEN LastPart(From(s, Find(s, p) + Len(p)), p) ELSE s

IsSpace(c) == c \in {" ", "\n", "\t", "\r"}

RECURSIVE TrimStart(_)
TrimStart(s) ==
    IF s # "" /\ IsSpace(SubSeq(s, 1, 1)) THEN TrimStart(Tail(s)) ELSE s

RECURSIVE TrimEnd(_)
TrimEnd(s) ==
    IF s # "" /\ IsSpace(SubSeq(s, Len(s), Len(s))) THEN TrimEnd(Front(s)) ELSE s

Trim(s) == TrimEnd(TrimStart(s))

RECURSIVE TrimEndMatches(_, _)
TrimEndMatches(s, c) ==
    IF s # "" /\ SubSeq(s, Len(s), Len(s)) = c
    THEN TrimEndMatches(Front(s), c) ELSE s

LowerOf ==
    [A |-> "a", B |-> "b", C |-> "c", D |-> "d", E |-> "e", F |-> "f",
     G |-> "g", H |-> "h", I |-> "i", J |-> "j", K |-> "k", L |-> "l",
     M |-> "m", N |-> "n", O |-> "o", P |-> "p", Q |-> "q", R |-> "r",
     S |-> "s", T |-> "t", U |-> "u", V |-> "v", W |-> "w", X |-> "x",
     Y |-> "y", Z |-> "z"]

LowerChar(c) == IF c \in DOMAIN LowerOf THEN LowerOf[c] ELSE c

\* str::to_lowercase, one half of the text after the other
RECURSIVE ToLowercase(_)
ToLowercase(s) ==
    IF Len(s) <= 1 THEN LowerChar(s)
    ELSE ToLowercase(SubSeq(s, 1, Len(s) \div 2))
         \o ToLowercase(SubSeq(s, Len(s) \div 2 + 1, Len(s)))

-----------------------------------------------------------------------------
(* The collectors: the fork-join tree of collect_system_info *)

\* host sources whose failure a collector turns into an Err
Fallible ==
    {"os_release", "proc_version", "os_age", "cpuinfo", "meminfo", "disk",
     "uptime", "hostname"}

\* the leaves: closures that read the host and spawn nothing
Leaves ==
    {"name", "kernel", "age", "cpu", "gpu", "memory", "disk", "syspkg",
     "flatpak", "init", "battery", "wm", "editor", "shell", "terminal", "user"}

\* rayon::join(left, right) call sites
JoinChildren ==
    [root     |-> <<"A", "B">>,
     A        |-> <<"os", "hardware">>,
     os       |-> <<"os1", "age">>,
     os1      |-> <<"name", "kernel">>,
     hardware |-> <<"h1", "h2">>,
     h1       |-> <<"cpu", "gpu">>,
     h2       |-> <<"memory", "disk">>,
     B        |-> <<"packages", "B2">>,
     packages |-> <<"syspkg", "flatpak">>,
     B2       |-> <<"status", "user">>,
     s0       |-> <<"s1", "s2">>,
     s1       |-> <<"init", "battery">>,
     s2       |-> <<"wm", "s3">>,
     s3       |-> <<"editor", "s4">>,
     s4       |-> <<"shell", "terminal">>]

Joins == DOMAIN JoinChildren

\* collect_system_status: reads the uptime, then joins its sub-tasks (s0)
Nodes == Leaves \cup Joins \cup {"status"}

Left(n) == JoinChildren[n][1]

Right(n) == JoinChildren[n][2]

\* the five collectors that collect_system_info joins
Collectors == <<"os", "hardware", "packages", "status", "user">>

\* the nodes whose function applies `?` to the joined results
CollectorJoins == {"root", "os", "hardware", "packages"}

\* the sub-tasks collect_system_status spawns after a successful uptime read
StatusSubtree ==
    {"s0", "s1", "s2", "s3", "s4", "init", "battery", "wm", "editor", "shell",
     "terminal"}

Ok(fields) == [err |-> "", val |-> fields]

Err(e) == [err |-> e, val |-> <<>>]

NoRes == <<>>

\* the bare values and Results the leaf closures return, by host state
LeafResult(n) ==
    CASE n = "name"     -> IF "os_release" \in host THEN Err("os_release")
                           ELSE Ok(<<"os.name">>)
      [] n = "kernel"   -> IF "proc_version" \in host THEN Err("proc_version")
                           ELSE Ok(<<"os.kernel_version">>)
      [] n = "age"      -> IF "os_age" \in host THEN Err("os_age")
                           ELSE Ok(<<"os.age">>)
      [] n = "cpu"      -> IF "cpuinfo" \in host THEN Err("cpuinfo")
                           ELSE Ok(<<"cpu.brand">>)
      [] n = "gpu"      -> Ok(<<"gpu.primary", "gpu.all_gpus">>)
      [] n = "memory"   -> IF "meminfo" \in host THEN Err("meminfo")
                           ELSE Ok(<<"memory">>)
      [] n = "disk"     -> IF "disk" \in host THEN Err("disk")
                           ELSE Ok(<<"disk.usage">>)
      [] n = "syspkg"   -> Ok(<<"system_packages">>)
      [] n = "flatpak"  -> Ok(<<"flatpak_packages">>)
      [] n = "init"     -> Ok(<<"init_system">>)
      [] n = "battery"  -> Ok(<<"battery_info">>)
      [] n = "wm"       -> Ok(<<"desktop_environment">>)
      [] n = "editor"   -> Ok(<<"editor">>)
      [] n = "shell"    -> Ok(<<"shell">>)
      [] n = "terminal" -> Ok(<<"terminal">>)
      [] n = "user"     -> IF "hostname" \in host THEN Err("hostname")
                           ELSE Ok(<<"username", "hostname", "formatted_user_info">>)

RECURSIVE ConcatVals(_)
ConcatVals(rs) ==
    IF rs = <<>> THEN <<>> ELSE Head(rs).val \o ConcatVals(Tail(rs))

\* the index of the first Err among results rs, 0 when there is none
FirstErr(rs) ==
    IF \E i \in 1..Len(rs) : rs[i].err # ""
    THEN CHOOSE i \in 1..Len(rs) :
            /\ rs[i].err # ""
            /\ \A j \in 1..(i - 1) : rs[j].err = ""
    ELSE 0

FirstErrLast(rs) ==
    IF \E i \in 1..Len(rs) : rs[i].err # ""
    THEN CHOOSE i \in 1..Len(rs) :
            /\ rs[i].err # ""
            /\ \A j \in (i + 1)..Len(rs) : rs[j].err = ""
    ELSE 0

\* Ok(Struct { a: a?, b: b?, ... }): the `?` operators are applied in field order
TryAllMutant(rs) ==
    IF FirstErrLast(rs) = 0 THEN Ok(ConcatVals(rs)) ELSE Err(rs[FirstErrLast(rs)].err)

TryAll(rs) ==
    IF FirstErr(rs) = 0 THEN Ok(ConcatVals(rs)) ELSE Err(rs[FirstErr(rs)].err)

\* what a join node hands to its caller once both closures have returned
JoinResult(r, n) ==
    IF n \in CollectorJoins
    THEN <<TryAll(r[Left(n)] \o r[Right(n)])>>
    ELSE r[Left(n)] \o r[Right(n)]

\* collect_system_status once its sub-tasks are joined
StatusResult(r) ==
    <<Ok(<<"uptime_seconds", "uptime_formatted">> \o ConcatVals(r["s0"]))>>

-----------------------------------------------------------------------------
(* The worker pool.  rayon::join(a, b) leaves b in the calling worker's    *)
(* deque and runs a on the calling worker; when a has returned the worker  *)
(* takes b back and runs it, unless an idle or waiting worker has stolen   *)
(* it (oldest job first), in which case the worker waits for b and steals  *)
(* other jobs meanwhile.  A step of a worker runs it up to the next leaf   *)
(* closure it starts or the next join it has to wait at.                   *)

\* rayon::join returns when both closures have returned
JoinReadyMutant(t, n) == t[Left(n)] = "done"

JoinReady(t, n) == t[Left(n)] = "done" /\ t[Right(n)] = "done"

\* the part of the state a step of worker w reads and writes
View(w) == [task |-> task, res |-> res, stk |-> w.stk, dq |-> w.dq]

\* start job n: every join on the way down queues its second closure and
\* runs its first one
RECURSIVE Descend(_, _)
Descend(st, n) ==
    IF n \in Joins
    THEN Descend([st EXCEPT !.task[n] = "forked",
                            !.task[Right(n)] = "queued",
                            !.stk = Append(@, n),
                            !.dq = Append(@, Right(n))],
                 Left(n))
    ELSE [st EXCEPT !.task[n] = "running", !.stk = Append(@, n)]

\* a closure has returned: go on with the caller on top of the stack
RECURSIVE Unwind(_)
Unwind(st) ==
    IF st.stk = <<>> THEN st
    ELSE LET n == Last(st.stk) IN
        IF n = "status"
        THEN Unwind([st EXCEPT !.res[n] = StatusResult(st.res),
                               !.task[n] = "done",
                               !.stk = Front(@)])
        ELSE IF JoinReady(st.task, n)
        THEN Unwind([st EXCEPT !.res[n] = JoinResult(st.res, n),
                               !.task[n] = "done",
                               !.stk = Front(@)])
        ELSE IF st.task[Right(n)] = "queued" /\ st.dq # <<>>
                /\ Last(st.dq) = Right(n)
        THEN Descend([st EXCEPT !.dq = Front(@)], Right(n))
        ELSE st

IdleWorker == [stk |-> <<>>, dq |-> <<>>]

Workers == BagToSet(pool)

Top(w) == Last(w.stk)

Busy(w) == w.stk # <<>>

\* worker w is inside a join, has finished the first closure and finds the
\* second one taken by another worker
Waiting(w) == Busy(w) /\ Top(w) \in Joins

Commit(w, st) ==
    /\ task' = st.task
    /\ res' = st.res
    /\ pool' = (pool (-) SetToBag({w}))
                (+) SetToBag({[stk |-> st.stk, dq |-> st.dq]})

\* the main thread calls collect_system_info: the root join is injected
\* into the pool and the caller blocks
CallCollect ==
    /\ pc = "calling"
    /\ pc' = "blocked"
    /\ task' = [task EXCEPT !["root"] = "injected"]
    /\ UNCHANGED <<gpuVars, renderVars, kittyVars, shellVars, callVars, host, res, pool, ret>>

TakeInjected(w) ==
    /\ ~Busy(w)
    /\ task["root"] = "injected"
    /\ Commit(w, Descend(View(w), "root"))
    /\ UNCHANGED <<gpuVars, renderVars, kittyVars, shellVars, callVars, host, pc, ret>>

\* the leaves whose closure runs a fallback subprocess through run_command,
\* which waits for the child without a timeout, and the host state in which
\* that child never terminates
Subprocess ==
    [age |-> "stat_hangs", gpu |-> "lspci_hangs", disk |-> "df_hangs",
     syspkg |-> "package_query_hangs", init |-> "systemctl_hangs"]

HangingMutant(n) == FALSE

Hanging(n) == n \in DOMAIN Subprocess /\ Subprocess[n] \in host

\* a leaf closure reads the host and returns, unless its subprocess hangs
RunLeaf(w) ==
    /\ Busy(w)
    /\ Top(w) \in Leaves
    /\ ~Hanging(Top(w))
    /\ Commit(w, Unwind([View(w) EXCEPT
                            !.res[Top(w)] = <<LeafResult(Top(w))>>,
                            !.task[Top(w)] = "done",
                            !.stk = Front(@)]))
    /\ UNCHANGED <<gpuVars, renderVars, kittyVars, shellVars, callVars, host, pc, ret>>

\* collect_system_status: `read_uptime()?`, then the join of the sub-tasks
StatusReadUptime(w) ==
    /\ Busy(w)
    /\ Top(w) = "status"
    /\ task["status"] = "running"
    /\ IF "uptime" \in host
       THEN Commit(w, Unwind([View(w) EXCEPT
                                !.res["status"] = <<Err("uptime")>>,
                                !.task["status"] = "done",
                                !.stk = Front(@)]))
       ELSE Commit(w, Descend([View(w) EXCEPT !.task["status"] = "forked"],
                              "s0"))
    /\ UNCHANGED <<gpuVars, renderVars, kittyVars, shellVars, callVars, host, pc, ret>>

\* an idle or waiting worker w takes the oldest job of worker v
Steal(w, v) ==
    /\ w # v
    /\ ~Busy(w) \/ Waiting(w)
    /\ v.dq # <<>>
    /\ LET st == Descend(View(w), Head(v.dq)) IN
        /\ task' = st.task
        /\ res' = st.res
        /\ pool' = (pool (-) SetToBag({w, v}))
                    (+) SetToBag({[stk |-> st.stk, dq |-> st.dq],
                                  [v EXCEPT !.dq = Tail(@)]})
    /\ UNCHANGED <<gpuVars, renderVars, kittyVars, shellVars, callVars, host, pc, ret>>

\* the stolen closure a worker waits for has returned
WakeJoin(w) ==
    /\ Waiting(w)
    /\ JoinReady(task, Top(w))
    /\ Commit(w, Unwind(View(w)))
    /\ UNCHANGED <<gpuVars, renderVars, kittyVars, shellVars, callVars, host, pc, ret>>

\* the root join is done: the caller wakes up and returns
\* Ok(SystemInfo {..}) or the first Err
Return ==
    /\ pc = "blocked"
    /\ task["root"] = "done"
    /\ pc' = "returned"
    /\ ret' = res["root"][1]
    /\ UNCHANGED <<gpuVars, renderVars, kittyVars, shellVars, callVars, host, task, res, pool>>

\* the host states of the collection: the sources that fail together
Hosts ==
    {{},                                \* every read succeeds
     {"hostname"},                      \* only the hostname read fails
     {"uptime"},                        \* status fails before it spawns
     {"os_release", "hostname"},        \* the first and the last collector fail
     {"disk", "uptime"},                \* hardware and status fail
     {"cpuinfo", "proc_version"},       \* hardware and os fail
     {"lspci_hangs"},                   \* the lspci fallback never terminates
     {"df_hangs", "hostname"},          \* df hangs and the hostname read fails
     {"systemctl_hangs", "uptime"}}     \* status fails before init is spawned

-----------------------------------------------------------------------------
(* GPU detection: collectors/hardware.rs *)

TagIntegrated == " [Integrated]"

TagDiscrete == " [Discrete]"

\* the text between the last '[' and the first ']' after it, if any
LastBracket(description) ==
    LET start == RFind(description, "[")
        end == IF start = 0 THEN 0 ELSE Find(From(description, start), "]")
    IN IF start = 0 \/ end = 0 THEN None
       ELSE Some(SubSeq(description, start + 1, start + end - 2))

ResolveAmdGpuRangeMutant(bracket_content) == BeforeFirst(bracket_content, " / ")

\* modules/system.rs; parse_amd_gpu of collectors/hardware.rs holds the same
\* lines inline
resolve_amd_gpu_range(bracket_content) ==
    IF Contains(bracket_content, " / ")
    THEN Trim(LastPart(bracket_content, " / "))
    ELSE bracket_content

parse_amd_gpu(description) ==
    LET bracket == LastBracket(description)
        radeon_pos == Find(description, "Radeon")
    IN IF bracket # None /\ Contains(bracket[1], "Radeon")
       THEN IF Contains(bracket[1], " / ")
            THEN Some("AMD " \o Trim(LastPart(bracket[1], " / ")))
            ELSE Some("AMD " \o bracket[1])
       ELSE IF radeon_pos # 0
       THEN Some("AMD " \o
                 Trim(BeforeFirst(BeforeFirst(From(description, radeon_pos),
                                              " ["), " (")))
       ELSE IF \/ Contains(description, "Raphael")
               \/ Contains(description, "Renoir")
               \/ Contains(description, "Cezanne")
               \/ Contains(description, "Barcelo")
       THEN Some("AMD Raphael")
       ELSE IF /\ bracket # None
               /\ ~Contains(bracket[1], "/")
               /\ Len(bracket[1]) > 2
       THEN Some("AMD " \o bracket[1])
       ELSE Some("AMD GPU")

parse_nvidia_gpu(description) ==
    LET bracket == LastBracket(description)
        geforce_pos == Find(description, "GeForce")
    IN IF geforce_pos # 0
       THEN Some(TrimEndMatches(
                    Trim(BeforeFirst(BeforeFirst(From(description, geforce_pos),
                                                 " ["), " (")), "]"))
       ELSE IF /\ bracket # None
               /\ \/ Contains(bracket[1], "GeForce")
                  \/ Contains(bracket[1], "RTX")
                  \/ Contains(bracket[1], "GTX")
       THEN Some(bracket[1])
       ELSE Some("NVIDIA GPU")

\* description.replace("Intel Corporation ", "")
RECURSIVE RemoveAll(_, _)
RemoveAll(s, p) ==
    IF Contains(s, p)
    THEN Upto(s, Find(s, p) - 1) \o RemoveAll(From(s, Find(s, p) + Len(p)), p)
    ELSE s

parse_intel_gpu(description) ==
    LET cleaned == RemoveAll(description, "Intel Corporation ")
    IN IF \/ Contains(cleaned, "UHD Graphics")
          \/ Contains(cleaned, "HD Graphics")
          \/ Contains(cleaned, "Iris")
          \/ Contains(cleaned, "Arc")
       THEN Some("Intel " \o Trim(BeforeFirst(cleaned, " [")))
       ELSE Some("Intel " \o Trim(cleaned))

extract_gpu_model_name(gpu_description) ==
    LET bracket == LastBracket(gpu_description)
    IN IF \/ Contains(gpu_description, "AMD")
          \/ Contains(gpu_description, "Advanced Micro Devices")
       THEN parse_amd_gpu(gpu_description)
       ELSE IF \/ Contains(gpu_description, "NVIDIA")
               \/ Contains(gpu_description, "GeForce")
       THEN parse_nvidia_gpu(gpu_description)
       ELSE IF Contains(gpu_description, "Intel")
       THEN parse_intel_gpu(gpu_description)
       ELSE IF /\ bracket # None
               /\ ~Contains(bracket[1], "/")
               /\ Len(bracket[1]) > 3
       THEN Some(bracket[1])
       ELSE Some(gpu_description)

detect_gpu_type(lspci_line, gpu_name) ==
    LET line_lower == ToLowercase(lspci_line)
        name_lower == ToLowercase(gpu_name)
    IN IF \/ Contains(line_lower, "integrated")
          \/ Contains(name_lower, "integrated")
          \/ Contains(name_lower, "raphael")
          \/ Contains(name_lower, "renoir")
          \/ Contains(name_lower, "cezanne")
          \/ Contains(name_lower, "iris")
          \/ Contains(name_lower, "uhd")
          \/ Contains(name_lower, "hd graphics")
          \/ StartsWith(lspci_line, "00:02.0") /\ Contains(line_lower, "intel")
       THEN TagIntegrated
       ELSE TagDiscrete

parse_gpu_from_lspci(line) ==
    LET colon_pos == RFind(line, ":")
        gpu_part == Trim(From(line, colon_pos + 1))
        cleaned == Trim(BeforeFirst(gpu_part, " (rev "))
        gpu_name == extract_gpu_model_name(cleaned)
    IN IF colon_pos = 0 \/ gpu_name = None THEN None
       ELSE Some(gpu_name[1] \o detect_gpu_type(line, gpu_name[1]))

\* card is an entry of /sys/class/drm: its directory name and what reading
\* device/name, device/vendor and device gives (None when the read fails)
is_integrated_gpu(card) ==
    \/ card.vendor # None /\ Trim(card.vendor[1]) = "0x8086"
    \/ card.device # None /\ Contains(card.device[1], "0000:00:02")

\* gpus.sort_by(|a, b| a.contains("Integrated").cmp(&b.contains("Integrated"))):
\* a stable sort on a two-valued key
IsIntegratedEntry(g) == Contains(g, "Integrated")

SortDiscreteFirst(gpus) ==
    SelectSeq(gpus, LAMBDA g : ~IsIntegratedEntry(g))
    \o SelectSeq(gpus, IsIntegratedEntry)

\* the entries the sysfs loop pushes, in read_dir order
RECURSIVE SysfsGpus(_)
SysfsGpus(entries) ==
    IF entries = <<>> THEN <<>>
    ELSE LET card == Head(entries)
             name == IF card.name = None THEN "" ELSE Trim(card.name[1])
         IN (IF /\ StartsWith(card.dir, "card")
                /\ ~Contains(card.dir, "-")
                /\ card.name # None
                /\ name # ""
             THEN <<name \o (IF is_integrated_gpu(card)
                             THEN TagIntegrated ELSE TagDiscrete)>>
             ELSE <<>>)
            \o SysfsGpus(Tail(entries))

IsGpuLine(line) ==
    \/ Contains(line, "VGA compatible controller")
    \/ Contains(line, "3D controller")
    \/ Contains(line, "Display controller")

RECURSIVE LspciGpus(_)
LspciGpus(gpu_lines) ==
    IF gpu_lines = <<>> THEN <<>>
    ELSE parse_gpu_from_lspci(Head(gpu_lines)) \o LspciGpus(Tail(gpu_lines))

\* detect_all_gpus: Ok(list) in every case
detect_all_gpus(h) ==
    LET sysfs == IF h.drm = None THEN <<>> ELSE SysfsGpus(h.drm[1])
        lspci == IF h.lspci = None THEN <<>>
                 ELSE LspciGpus(SelectSeq(h.lspci[1], IsGpuLine))
    IN IF sysfs # <<>> THEN Ok(SortDiscreteFirst(sysfs))
       ELSE IF lspci # <<>> THEN Ok(SortDiscreteFirst(lspci))
       ELSE Ok(<<>>)

UnknownGpu == "Unknown GPU"

collect_gpu_info(h) ==
    LET detected == detect_all_gpus(h)
        all_gpus == IF detected.err # "" THEN <<UnknownGpu>> ELSE detected.val
        primary == IF all_gpus = <<>> THEN UnknownGpu ELSE all_gpus[1]
    IN [primary |-> primary, all_gpus |-> all_gpus]

\* hosts of the GPU detection
MaxCards == 2

MaxLspciLines == 2

DrmEntries ==
    {[dir |-> "card0", name |-> Some("Radeon RX 7800 XT\n"),
      vendor |-> Some("0x1002\n"), device |-> None],
     [dir |-> "card1", name |-> Some("Intel UHD Graphics 630\n"),
      vendor |-> Some("0x8086\n"), device |-> None],
     [dir |-> "card0", name |-> None,
      vendor |-> Some("0x10de\n"), device |-> None],
     [dir |-> "card2", name |-> Some("\n"),
      vendor |-> None, device |-> None],
     [dir |-> "card1-DP-1", name |-> None,
      vendor |-> None, device |-> None],
     [dir |-> "renderD128", name |-> Some("Radeon RX 7800 XT\n"),
      vendor |-> Some("0x1002\n"), device |-> None],
     [dir |-> "card2", name |-> Some("Vega Integrated Graphics\n"),
      vendor |-> Some("0x1002\n"), device |-> None]}

LspciLines ==
    {"01:00.0 VGA compatible controller: NVIDIA Corporation GA104 [GeForce RTX 3070] (rev a1)",
     "00:02.0 VGA compatible controller: Intel Corporation UHD Graphics 630",
     "03:00.0 VGA compatible controller: Advanced Micro Devices, Inc. [AMD/ATI] Navi 32 [Radeon RX 7700 XT / 7800 XT] (rev c8)",
     "00:1f.3 Audio device: Intel Corporation Cannon Lake PCH cAVS (rev 10)",
     "3D controller"}

GpuHosts ==
    [drm   : {None} \cup {Some(q) : q \in SeqsUpTo(DrmEntries, MaxCards)},
     lspci : {None} \cup {Some(q) : q \in SeqsUpTo(LspciLines, MaxLspciLines)}]

NoGpuInfo == [primary |-> "", all_gpus |-> <<>>]

GpuIdle == gpuHost = [drm |-> None, lspci |-> None] /\ gpuInfo = NoGpuInfo

CollectGpuInfo ==
    /\ gpuInfo = NoGpuInfo
    /\ gpuInfo' = collect_gpu_info(gpuHost)
    /\ UNCHANGED <<collectVars, renderVars, kittyVars, shellVars, callVars, gpuHost>>

-----------------------------------------------------------------------------
(* Colours: display.rs *)

\* the escape byte 0x1b, as Rust writes it
ESC == "\\x1b"

RESET == ESC \o "[0m"

AnsiCodes ==
    [black |-> "30", red |-> "31", green |-> "32", yellow |-> "33",
     blue |-> "34", magenta |-> "35", cyan |-> "36", white |-> "37",
     bright_black |-> "90", gray |-> "90", grey |-> "90",
     bright_red |-> "91", bright_green |-> "92", bright_yellow |-> "93",
     bright_blue |-> "94", bright_magenta |-> "95", bright_cyan |-> "96",
     bright_white |-> "97",
     orange |-> "91", purple |-> "35", violet |-> "95",
     reset |-> "0", default |-> "0"]

\* the diagnostic get_ansi_color_code prints for a name it does not know
UnknownColor(color_name) == "Error: Unknown color '" \o color_name \o "'"

\* get_ansi_color_code: [code |-> Option<String>, err |-> what it printed]
get_ansi_color_code(color_name) ==
    IF ToLowercase(color_name) \in DOMAIN AnsiCodes
    THEN [code |-> Some(ESC \o "[" \o AnsiCodes[ToLowercase(color_name)] \o "m"),
          err |-> <<>>]
    ELSE [code |-> None, err |-> <<UnknownColor(color_name)>>]

\* the value of a hexadecimal digit, -1 for another character
HexValue(c) == Find("0123456789abcdef", LowerChar(c)) - 1

\* u8::from_str_radix(s, 16) of a two-character s: None for Err
HexByte(s) ==
    LET a == SubSeq(s, 1, 1)
        b == SubSeq(s, 2, 2)
    IN IF HexValue(a) >= 0 /\ HexValue(b) >= 0
       THEN Some(16 * HexValue(a) + HexValue(b))
       ELSE IF a = "+" /\ HexValue(b) >= 0 THEN Some(HexValue(b))
       ELSE None

\* hex_to_ansi: [code |-> String, err |-> what was printed]
hex_to_ansi(color) ==
    LET named == get_ansi_color_code(color)
        r == HexByte(SubSeq(color, 2, 3))
        g == HexByte(SubSeq(color, 4, 5))
        b == HexByte(SubSeq(color, 6, 7))
    IN IF named.code # None THEN [code |-> named.code[1], err |-> named.err]
       ELSE IF /\ StartsWith(color, "#")
               /\ Len(color) = 7
               /\ r # None /\ g # None /\ b # None
       THEN [code |-> ESC \o "[38;2;" \o ToString(r[1]) \o ";"
                      \o ToString(g[1]) \o ";" \o ToString(b[1]) \o "m",
             err |-> named.err]
       ELSE [code |-> RESET, err |-> named.err]

\* config.colors.get(key).map(hex_to_ansi).unwrap_or_else(
\*     || get_ansi_color_code(key).unwrap_or(reset))
ResolveColorKey(colors, color_key) ==
    IF color_key \in DOMAIN colors
    THEN hex_to_ansi(colors[color_key])
    ELSE LET named == get_ansi_color_code(color_key)
         IN [code |-> IF named.code = None THEN RESET ELSE named.code[1],
             err |-> named.err]

-----------------------------------------------------------------------------
(* Artwork text.  Artwork lines may hold non-ASCII characters; in the      *)
(* model "%" stands for a two-byte character one column wide (U+00E9) and  *)
(* "&" for a three-byte character two columns wide (U+4E16).               *)

CharBytes(c) == IF c = "%" THEN 2 ELSE IF c = "&" THEN 3 ELSE 1

CharWidth(c) == IF c = "&" THEN 2 ELSE 1

\* str::len: the length in bytes
RECURSIVE ByteLen(_)
ByteLen(s) == IF s = "" THEN 0 ELSE CharBytes(SubSeq(s, 1, 1)) + ByteLen(Tail(s))

\* UnicodeWidthStr::width: the display width in columns
RECURSIVE DisplayWidth(_)
DisplayWidth(s) ==
    IF s = "" THEN 0 ELSE CharWidth(SubSeq(s, 1, 1)) + DisplayWidth(Tail(s))

RECURSIVE Spaces(_)
Spaces(n) == IF n <= 0 THEN "" ELSE " " \o Spaces(n - 1)

\* format!("{:<width$}", s): pads to `width` characters
PadLeftAligned(s, width) == s \o Spaces(width - Len(s))

Max(a, b) == IF a >= b THEN a ELSE b

Min(a, b) == IF a <= b THEN a ELSE b

RECURSIVE MaxWidth(_)
MaxWidth(lines) ==
    IF lines = <<>> THEN 0
    ELSE Max(DisplayWidth(Head(lines)), MaxWidth(Tail(lines)))

\* the padding of one artwork line in render_output
PaddedAscii(ascii_line, max_ascii_length) ==
    IF ByteLen(ascii_line) < max_ascii_length
    THEN PadLeftAligned(ascii_line, max_ascii_length)
    ELSE ascii_line

\* the distributions with a compiled-in artwork
DefaultDistros ==
    {"arch", "ubuntu", "cachyos", "debian", "fedora", "gentoo", "void",
     "nixos", "pika"}

\* get_default_ascii: files.default_ascii is the text of the compiled-in
\* artwork files, by distribution
get_default_ascii(files, distro) ==
    IF ToLowercase(distro) \in DefaultDistros
    THEN Some(files.default_ascii[ToLowercase(distro)])
    ELSE None

\* load_ascii_lines: files.ascii_file is the content of the file at
\* ascii_path (None when it does not exist or cannot be opened)
load_ascii_lines(config, files, os_name) ==
    LET display == config.display
        use_default == IF display.use_default_ascii = None THEN TRUE
                       ELSE display.use_default_ascii[1]
        path == IF display.ascii_path # None /\ Trim(display.ascii_path[1]) # ""
                THEN Some(Trim(display.ascii_path[1])) ELSE None
        default == IF use_default /\ get_default_ascii(files, os_name) # None
                   THEN get_default_ascii(files, os_name)[1]
                   ELSE <<>>
    IN IF path # None /\ files.ascii_file # None THEN files.ascii_file[1]
       ELSE default

-----------------------------------------------------------------------------
(* Item values: get_output_value *)

\* Vec::get(i).cloned().unwrap_or_else(|| default), i counted from 0
GetOr(list, i, default) == IF i + 1 <= Len(list) THEN list[i + 1] ELSE default

DefaultValue(value, system_data) ==
    CASE value = "kernel" -> system_data.kernel_version
      [] value = "os" -> system_data.os_name
      [] value = "cpu" -> system_data.cpu_brand
      [] value = "gpu" -> system_data.gpu
      [] value = "gpu1" -> GetOr(system_data.all_gpus, 0, "No GPU")
      [] value = "gpu2" -> GetOr(system_data.all_gpus, 1, "No secondary GPU")
      [] value = "gpu3" -> GetOr(system_data.all_gpus, 2, "No third GPU")
      [] value = "wm" -> system_data.wm_de
      [] value = "editor" -> system_data.editor
      [] value = "shell" -> system_data.shell
      [] value = "terminal" -> system_data.terminal
      [] value = "username" -> system_data.username
      [] value = "hostname" -> Trim(system_data.hostname)
      [] value = "memory" -> system_data.memory
      [] value = "pkg_count" -> ToString(system_data.pkg_count)
      [] value = "flatpak_pkg_count" -> ToString(system_data.flatpak_pkg_count)
      [] value = "uptime_seconds" -> system_data.uptime_formatted
      [] value = "os_age" -> system_data.os_age
      [] value = "user_info" -> system_data.user_info
      [] value = "disk_usage" -> system_data.disk_usage
      [] value = "init_system" -> system_data.init_system
      [] value = "battery" -> system_data.battery_info
      [] OTHER -> "Unknown default value"

\* files.sh is what `sh -c <value>` writes to its standard output (None when
\* the shell cannot be started)
get_output_value(entry, system_data, files) ==
    CASE entry.type = "default" -> DefaultValue(entry.value, system_data)
      [] entry.type = "text" -> entry.value
      [] entry.type = "command" ->
            IF files.sh = None THEN "Command failed" ELSE Trim(files.sh[1])
      [] OTHER -> "Invalid type"

-----------------------------------------------------------------------------
(* Kitty graphics: display.rs, mod kitty_support *)

CHUNK == 4096

DEFAULT_GAP_COLUMNS == 1

\* DEFAULT_CHAR_WIDTH = 11.5 and DEFAULT_CHAR_HEIGHT = 18.0, as fractions
DefaultCellMetrics == [wnum |-> 23, wden |-> 2, hnum |-> 18, hden |-> 1]

\* terminal_cell_metrics: ws is the window size the ioctl reports (None when
\* it fails); the cell size is kept as the fractions xpixel/col, ypixel/row
terminal_cell_metrics(ws) ==
    IF /\ ws # None
       /\ ws[1].ws_col > 0 /\ ws[1].ws_row > 0
       /\ ws[1].ws_xpixel > 0 /\ ws[1].ws_ypixel > 0
    THEN Some([wnum |-> ws[1].ws_xpixel, wden |-> ws[1].ws_col,
               hnum |-> ws[1].ws_ypixel, hden |-> ws[1].ws_row])
    ELSE None

\* (a / (num/den)).ceil() for a >= 0
CeilDiv(a, num, den) == (a * den + num - 1) \div num

\* (a * (num/den)).round() for a >= 0: halves round away from zero
RoundMul(a, num, den) == (2 * a * num + den) \div (2 * den)

I32_MAX == 2147483647

\* `x as i32` of a usize below 2^32: the low 32 bits, read as signed
AsI32(x) == IF x <= I32_MAX THEN x ELSE ((x - I32_MAX) - 1) + (-I32_MAX - 1)

\* i32 addition, wrapping as the release build does
AddI32(a, b) ==
    IF b > 0 /\ a > I32_MAX - b THEN (((a - I32_MAX) - 1) + b) + (-I32_MAX - 1)
    ELSE IF b < 0 /\ a < (-I32_MAX - 1) - b THEN (((a - (-I32_MAX - 1)) + b) + I32_MAX) + 1
    ELSE a + b

\* whether the i32 addition a + b leaves the i32 range: a build with overflow
\* checks (the dev profile) panics there, one without (the release profile)
\* wraps
AddOverflows(a, b) ==
    \/ b > 0 /\ a > I32_MAX - b
    \/ b < 0 /\ a < (-I32_MAX - 1) - b

adjust_with_offset(base, delta, min_value) ==
    LET adjusted == AddI32(AsI32(base), delta)
    IN IF adjusted < AsI32(min_value) THEN min_value ELSE adjusted

\* (pad_rows as f32 * 0.08).round() as i32, at least 1; 8 * pad_rows + 50 is
\* never a multiple of 100, so no value sits on a rounding boundary
compute_vertical_offset_rows(pad_rows) ==
    IF pad_rows = 0 THEN 0
    ELSE Max((8 * pad_rows + 50) \div 100, 1)

\* the dimensions resize_image produces
resize_image(image, width, height) ==
    CASE width # None /\ height # None ->
            [image EXCEPT !.width = width[1], !.height = height[1]]
      [] width # None /\ height = None ->
            [image EXCEPT !.width = width[1],
                          !.height = Max(RoundMul(image.height, width[1], image.width), 1)]
      [] width = None /\ height # None ->
            [image EXCEPT !.height = height[1],
                          !.width = Max(RoundMul(image.width, height[1], image.height), 1)]
      [] OTHER -> image

\* BASE64_ENGINE.encode(png_bytes).len(): padded base64
EncodedLen(png_len) == 4 * ((png_len + 2) \div 3)

MoreFlagMutant(end, encoded_len) == 1

\* let more_flag = if end < encoded.len() { 1 } else { 0 }
MoreFlag(end, encoded_len) == IF end < encoded_len THEN 1 ELSE 0

ChunkEndMutant(start, encoded_len) == Min(start + CHUNK - 1, encoded_len)

\* let end = (start + CHUNK).min(encoded.len())
ChunkEnd(start, encoded_len) == Min(start + CHUNK, encoded_len)

\* the loop of transmit_png: one record per escape sequence written, with
\* the range encoded[start..end] it carries
RECURSIVE TransmitFrom(_, _, _)
TransmitFrom(start, encoded_len, header) ==
    IF start < encoded_len
    THEN LET end == ChunkEnd(start, encoded_len)
         IN <<[s |-> header.s, v |-> header.v, x |-> header.x, y |-> header.y,
               m |-> MoreFlag(end, encoded_len),
               start |-> start, end |-> end]>>
            \o TransmitFrom(end, encoded_len, header)
    ELSE <<>>

transmit_png(png_len, width, height, horizontal_offset, vertical_offset) ==
    TransmitFrom(0, EncodedLen(png_len),
                 [s |-> width, v |-> height,
                  x |-> horizontal_offset, y |-> vertical_offset])

\* render_image: image is what image::open and the PNG encoder give for the
\* path: None when it cannot be opened or decoded, else the stored
\* dimensions, whether encoding succeeds and the length of the encoded PNG
render_image(image, target_width, target_height, configured_padding, configured_rows, offset_columns, offset_rows, ws) ==
    IF image = None
    THEN [err |-> "Failed to open image", chunks |-> <<>>, info |-> None,
          overflow |-> FALSE]
    ELSE IF ~image[1].encodes
    THEN [err |-> "Failed to encode image", chunks |-> <<>>, info |-> None,
          overflow |-> FALSE]
    ELSE
    LET final == resize_image(image[1], target_width, target_height)
        cell == IF terminal_cell_metrics(ws) = None THEN DefaultCellMetrics
                ELSE terminal_cell_metrics(ws)[1]
        auto_columns == Max(CeilDiv(final.width, cell.wnum, cell.wden), 1)
        auto_pad_columns == IF configured_padding = None
                            THEN auto_columns + DEFAULT_GAP_COLUMNS
                            ELSE configured_padding[1]
        auto_pad_rows == IF configured_rows = None
                         THEN Max(CeilDiv(final.height, cell.hnum, cell.hden), 1)
                         ELSE configured_rows[1]
        pad_columns == adjust_with_offset(auto_pad_columns, offset_columns, 0)
        pad_rows == adjust_with_offset(auto_pad_rows, offset_rows, 1)
        vertical_offset_rows ==
            AddI32(compute_vertical_offset_rows(auto_pad_rows), offset_rows)
    IN [err |-> "",
        chunks |-> transmit_png(final.png_len, final.width, final.height,
                                offset_columns, vertical_offset_rows),
        info |-> Some([pad_columns |-> pad_columns, pad_rows |-> pad_rows]),
        overflow |->
            \/ AddOverflows(AsI32(auto_pad_columns), offset_columns)
            \/ AddOverflows(AsI32(auto_pad_rows), offset_rows)
            \/ AddOverflows(compute_vertical_offset_rows(auto_pad_rows),
                            offset_rows)]

\* the base64 text of a chunk; the model keeps the count of its characters
\* and writes each of them as "A"
RECURSIVE Payload(_)
Payload(n) ==
    IF n <= 0 THEN ""
    ELSE IF n = 1 THEN "A"
    ELSE Payload(n \div 2) \o Payload(n - n \div 2)

IntText(i) == IF i < 0 THEN "-" \o ToString(0 - i) ELSE ToString(i)

\* what transmit_png writes for one chunk
ChunkText(c) ==
    ESC \o "_Ga=T,f=100,s=" \o IntText(c.s) \o ",v=" \o IntText(c.v)
        \o ",x=" \o IntText(c.x) \o ",y=" \o IntText(c.y)
        \o ",m=" \o IntText(c.m) \o ";"
        \o Payload(c.end - c.start) \o ESC \o "\\"

\* the buffer render_image leaves on success
RECURSIVE KittyText(_)
KittyText(chunks) ==
    IF chunks = <<>> THEN "\n"
    ELSE ChunkText(Head(chunks)) \o KittyText(Tail(chunks))

-----------------------------------------------------------------------------
(* render_output: display.rs *)

\* the entries one configured item contributes to rendered_items
ExpandEntry(entry, show_all_gpus, all_gpus) ==
    IF entry.value = "gpu" /\ show_all_gpus
    THEN [gpu_idx \in 1..Len(all_gpus) |->
            [entry EXCEPT !.value = "gpu" \o ToString(gpu_idx)]]
    ELSE <<entry>>

RECURSIVE ExpandItems(_, _, _)
ExpandItems(items, show_all_gpus, all_gpus) ==
    IF items = <<>> THEN <<>>
    ELSE ExpandEntry(Head(items), show_all_gpus, all_gpus)
         \o ExpandItems(Tail(items), show_all_gpus, all_gpus)

\* get_cached_color: the code, what resolving it printed, and the new cache
get_cached_color(cache, colors, color_key) ==
    IF color_key \in DOMAIN cache
    THEN [code |-> cache[color_key], err |-> <<>>, cache |-> cache]
    ELSE LET r == ResolveColorKey(colors, color_key)
         IN [code |-> r.code, err |-> r.err,
             cache |-> (color_key :> r.code) @@ cache]

\* entry.color / entry.value_color .map(get_cached_color).unwrap_or(reset)
OptionalColor(cache, colors, opt) ==
    IF opt = None THEN [code |-> RESET, err |-> <<>>, cache |-> cache]
    ELSE get_cached_color(cache, colors, opt[1])

ItemTextMutant(entry, key_color_code, value_color_code, output_value, separator) ==
    IF entry.type = "text"
    THEN key_color_code \o output_value \o RESET \o "\n"
    ELSE key_color_code \o entry.key \o separator \o RESET
         \o value_color_code \o output_value \o RESET \o "\n"

\* what the item loop pushes after the two-space gap
ItemText(entry, key_color_code, value_color_code, output_value, separator) ==
    IF entry.type = "text"
    THEN key_color_code \o output_value \o RESET \o "\n"
    ELSE IF entry.key = "" \/ entry.key = "user_info"
    THEN value_color_code \o output_value \o RESET \o "\n"
    ELSE key_color_code \o entry.key \o separator \o RESET
         \o value_color_code \o output_value \o RESET \o "\n"

\* the item loop from index i (counted from 0); acc is the output so far,
\* what was printed to standard error, and the colour cache
RECURSIVE RenderItems(_, _, _)
RenderItems(acc, i, ctx) ==
    IF i >= Len(ctx.rendered_items) THEN acc
    ELSE
    LET entry == ctx.rendered_items[i + 1]
        ascii_line == IF i < Len(ctx.ascii_lines) THEN ctx.ascii_lines[i + 1]
                      ELSE ""
        padded_ascii == PaddedAscii(ascii_line, ctx.max_ascii_length)
        line == acc.output \o ctx.ascii_color_code \o padded_ascii
        key_color == OptionalColor(acc.cache, ctx.colors, entry.color)
        value_color == OptionalColor(key_color.cache, ctx.colors, entry.value_color)
        output_value == get_output_value(entry, ctx.system_data, ctx.files)
    IN IF entry.value = ""
       THEN RenderItems([acc EXCEPT !.output = line \o "\n"], i + 1, ctx)
       ELSE RenderItems(
                [output |-> line \o "  "
                            \o ItemText(entry, key_color.code, value_color.code,
                                        output_value, ctx.separator),
                 stderr |-> acc.stderr \o key_color.err \o value_color.err,
                 cache |-> value_color.cache],
                i + 1, ctx)

\* the loop over the remaining artwork lines, from index i
RECURSIVE RemainingLines(_, _, _)
RemainingLines(output, i, ctx) ==
    IF i >= Len(ctx.ascii_lines) THEN output
    ELSE RemainingLines(
             output \o ctx.ascii_color_code
                    \o PaddedAscii(ctx.ascii_lines[i + 1], ctx.max_ascii_length)
                    \o "\n",
             i + 1, ctx)

UnsupportedWarning ==
    "Image mode requested but the terminal did not advertise Kitty-compatible graphics support."

FailedWarning == "Kitty image rendering failed (falling back to ASCII): "

NoPathWarning ==
    "Image display mode was requested but 'image_path' was not set. Falling back to ASCII output."

use_image_mode(config) ==
    LET display_mode == IF config.display.display_mode = None THEN "ascii"
                        ELSE ToLowercase(config.display.display_mode[1])
    IN display_mode \in {"image", "kitty"}

KittyPrefixMutant(r) == ESC \o "[s" \o KittyText(r.chunks) \o ESC \o "[u"

\* what the match on render_image's result pushes to the output
KittyPrefix(r) ==
    IF r.err = "" THEN ESC \o "[s" \o KittyText(r.chunks) \o ESC \o "[u"
    ELSE ""

\* the image stage of render_output: the artwork lines it sets, what it
\* pushes to the output and what it prints to standard error
ImageStage(config, files, n_items) ==
    LET d == config.display
        r == render_image(files.image, d.image_width, d.image_height,
                          d.image_padding_columns, d.image_rows,
                          IF d.image_offset_columns = None THEN 0
                          ELSE d.image_offset_columns[1],
                          IF d.image_offset_rows = None THEN 0
                          ELSE d.image_offset_rows[1],
                          files.winsize)
        unsupported == IF files.supports_kitty THEN <<>>
                       ELSE <<UnsupportedWarning>>
    IN IF ~use_image_mode(config)
       THEN [ascii_lines |-> <<>>, output |-> "", stderr |-> <<>>]
       ELSE IF d.image_path = None
       THEN [ascii_lines |-> <<>>, output |-> "", stderr |-> <<NoPathWarning>>]
       ELSE IF r.err # ""
       THEN [ascii_lines |-> <<>>, output |-> KittyPrefix(r),
             stderr |-> unsupported \o <<FailedWarning \o r.err>>]
       ELSE [ascii_lines |->
                [k \in 1..Max(Max(n_items, r.info[1].pad_rows), 1) |->
                    Spaces(r.info[1].pad_columns)],
             output |-> KittyPrefix(r),
             stderr |-> unsupported]

\* render_output: what it prints, what it writes to standard error, and
\* its item list after the expansion
render_output(config, system_data, files) ==
    LET separator == IF config.display.separator = None THEN ": "
                     ELSE config.display.separator[1]
        show_all_gpus == IF config.display.show_all_gpus = None THEN FALSE
                         ELSE config.display.show_all_gpus[1]
        rendered_items == ExpandItems(config.display.items, show_all_gpus,
                                      system_data.all_gpus)
        ascii_color == ResolveColorKey(config.colors, config.display.ascii_color)
        image == ImageStage(config, files, Len(rendered_items))
        ascii_lines == IF image.ascii_lines = <<>>
                       THEN load_ascii_lines(config, files, system_data.os_name)
                       ELSE image.ascii_lines
        ctx == [rendered_items |-> rendered_items,
                ascii_lines |-> ascii_lines,
                max_ascii_length |-> MaxWidth(ascii_lines),
                ascii_color_code |-> ascii_color.code,
                separator |-> separator,
                colors |-> config.colors,
                system_data |-> system_data,
                files |-> files]
        items == RenderItems([output |-> image.output,
                              stderr |-> ascii_color.err \o image.stderr,
                              cache |-> <<>>],
                             0, ctx)
    IN [output |-> RemainingLines(items.output, Len(rendered_items), ctx) \o RESET,
        stderr |-> items.stderr,
        rendered_items |-> rendered_items,
        ascii_lines |-> ascii_lines]

-----------------------------------------------------------------------------
(* Inputs of render_output *)

Colors == [c1 |-> "#00FF00", c2 |-> "Blue", art |-> "#ff8800"]

Entry(key, type, value, color, value_color) ==
    [key |-> key, type |-> type, value |-> value, color |-> color,
     value_color |-> value_color]

OsEntry == Entry("OS", "default", "os", Some("c1"), None)

BlankEntry == Entry("", "default", "", None, None)

GpuEntry == Entry("GPU", "default", "gpu", None, Some("c2"))

Entries ==
    {OsEntry, BlankEntry, GpuEntry,
     Entry("note", "text", "hello", Some("red"), Some("c2")),
     Entry("user_info", "default", "user_info", Some("c1"), Some("c2")),
     Entry("", "default", "kernel", Some("c1"), Some("#123456")),
     Entry("Up", "command", "uptime -p", None, None),
     Entry("motd", "text", "two\nlines", None, None)}

GpuName(k) ==
    "GPU " \o ToString(k) \o (IF k <= 2 THEN TagDiscrete ELSE TagIntegrated)

SystemData(os_name, n_gpus) ==
    [os_name |-> os_name, kernel_version |-> "6.1.0", cpu_brand |-> "CPU",
     gpu |-> IF n_gpus = 0 THEN UnknownGpu ELSE GpuName(1),
     all_gpus |-> [k \in 1..n_gpus |-> GpuName(k)],
     username |-> "user", hostname |-> "host\n", wm_de |-> "sway",
     memory |-> "1.00 GB / 2.00 GB", pkg_count |-> 10, flatpak_pkg_count |-> 0,
     uptime_formatted |-> "1h 2m", os_age |-> "3 day(s)", editor |-> "vi",
     shell |-> "sh", terminal |-> "foot", user_info |-> "user@host",
     disk_usage |-> "1.00 GB / 2.00 GB", init_system |-> "systemd",
     battery_info |-> "N/A"]

DisplayConfig(items) ==
    [items |-> items, separator |-> None, ascii_path |-> Some("~/art.txt"),
     ascii_color |-> "art", use_default_ascii |-> None,
     show_all_gpus |-> None, display_mode |-> None, image_path |-> None,
     image_width |-> None, image_height |-> None,
     image_padding_columns |-> None, image_rows |-> None,
     image_offset_columns |-> None, image_offset_rows |-> None]

\* the artwork file holds `art`; no image; a terminal without pixel sizes
Files(art) ==
    [ascii_file |-> Some(art),
     default_ascii |-> [d \in DefaultDistros |-> <<" /\\ ", "/__\\">>],
     sh |-> Some("up 1 hour\n"),
     image |-> None, winsize |-> None, supports_kitty |-> TRUE]

Logo == <<"##", "#", "###">>

ArtLines == {"##", "#", "", "%", "&#"}

SmallImage == [width |-> 23, height |-> 40, encodes |-> TRUE, png_len |-> 5]

\* item lists beside a fixed artwork
ItemInputs ==
    {[config |-> [colors |-> Colors, display |-> DisplayConfig(items)],
      system_data |-> SystemData("TestOS 1.0", 2),
      files |-> Files(Logo)] :
        items \in SeqsUpTo(Entries, MaxItems)}

\* item lists with "gpu" items, with the GPU expansion enabled for every
\* number of detected GPUs, and disabled
GpuInputs ==
    {[config |-> [colors |-> Colors,
                  display |-> [DisplayConfig(items) EXCEPT
                                   !.show_all_gpus = gpus[1]]],
      system_data |-> SystemData("TestOS 1.0", gpus[2]),
      files |-> Files(Logo)] :
        items \in SeqsUpTo({GpuEntry, OsEntry, BlankEntry}, MaxItems),
        gpus \in ({Some(TRUE)} \X (0..MaxGpus)) \cup {<<Some(FALSE), 2>>}}

\* every entry with a configured separator
SeparatorInputs ==
    {[config |-> [colors |-> Colors,
                  display |-> [DisplayConfig(<<entry>>) EXCEPT
                                   !.separator = Some(sep)]],
      system_data |-> SystemData("TestOS 1.0", 1),
      files |-> Files(Logo)] :
        entry \in Entries, sep \in {" -> ", ""}}

\* artwork files of any lines, beside short item lists
ArtInputs ==
    {[config |-> [colors |-> Colors, display |-> DisplayConfig(items)],
      system_data |-> SystemData("TestOS 1.0", 1),
      files |-> Files(art)] :
        items \in {<<>>, <<OsEntry>>, <<BlankEntry, OsEntry>>},
        art \in SeqsUpTo(ArtLines, MaxArtLines)}

\* where the artwork comes from
ArtSourceInputs ==
    {[config |-> [colors |-> Colors,
                  display |-> [DisplayConfig(<<OsEntry>>) EXCEPT
                                   !.ascii_path = path,
                                   !.use_default_ascii = use_default]],
      system_data |-> SystemData(os_name, 1),
      files |-> [Files(Logo) EXCEPT !.ascii_file = file]] :
        path \in {None, Some("  "), Some("~/art.txt")},
        use_default \in {None, Some(TRUE), Some(FALSE)},
        os_name \in {"TestOS 1.0", "Arch", "Arch Linux"},
        file \in {None, Some(Logo)}}

\* display modes and images: the mode, the image path, what the path
\* holds, the configured rows and whether the terminal advertises support
ImageScenarios ==
    ({None, Some("ascii"), Some("sixel")}
        \X {Some("~/logo.png")} \X {Some(SmallImage)} \X {None} \X {TRUE})
    \cup ({Some("image"), Some("Kitty")}
        \X {None} \X {Some(SmallImage)} \X {None} \X {TRUE})
    \cup ({Some("image"), Some("Kitty")}
        \X {Some("~/logo.png")}
        \X {None, Some([SmallImage EXCEPT !.encodes = FALSE])}
        \X {None} \X BOOLEAN)
    \cup ({Some("image"), Some("Kitty")}
        \X {Some("~/logo.png")} \X {Some(SmallImage)}
        \X {None, Some(1)} \X BOOLEAN)

ImageInputs ==
    {[config |-> [colors |-> Colors,
                  display |-> [DisplayConfig(items) EXCEPT
                                   !.display_mode = sc[1],
                                   !.image_path = sc[2],
                                   !.image_rows = sc[4]]],
      system_data |-> SystemData("TestOS 1.0", 1),
      files |-> [Files(art) EXCEPT !.image = sc[3],
                                   !.supports_kitty = sc[5]]] :
        items \in SeqsUpTo({OsEntry, BlankEntry}, MaxItems),
        sc \in ImageScenarios,
        art \in {<<>>, Logo}}

RenderInputs ==
    ItemInputs \cup GpuInputs \cup SeparatorInputs \cup ArtInputs
    \cup ArtSourceInputs \cup ImageInputs

RenderIdle ==
    /\ r_config = <<>>
    /\ r_system_data = <<>>
    /\ r_files = <<>>
    /\ rendered = None

RenderOutput ==
    /\ rendered = None
    /\ rendered' = Some(render_output(r_config, r_system_data, r_files))
    /\ UNCHANGED <<collectVars, gpuVars, kittyVars, shellVars, callVars,
                   r_config, r_system_data, r_files>>

-----------------------------------------------------------------------------
(* Inputs of render_image *)

\* lengths of the encoded PNG around the chunk boundaries: 3072 bytes make
\* CHUNK base64 characters
PngSizes ==
    {3072 * c + d : c \in 0..(MaxChunks - 1),
                    d \in {1, 2, 3, 1500, 3070, 3071, 3072}}

Images ==
    {None, Some([SmallImage EXCEPT !.encodes = FALSE])}
    \cup {Some([width |-> 23, height |-> 40, encodes |-> TRUE, png_len |-> n]) :
            n \in PngSizes}

WindowSizes ==
    {None,
     Some([ws_col |-> 80, ws_row |-> 24, ws_xpixel |-> 800, ws_ypixel |-> 480]),
     Some([ws_col |-> 80, ws_row |-> 24, ws_xpixel |-> 0, ws_ypixel |-> 0])}

ImageRequests ==
    [image : Images,
     target_width : {None, Some(64)},
     target_height : {None, Some(10)},
     configured_padding : {None, Some(0)},
     configured_rows : {None, Some(0), Some(30)},
     offset_columns : {-3, 0, 2},
     offset_rows : {-2, 0},
     ws : WindowSizes]

\* configured padding, rows and offsets up to the ends of the i32 range, on
\* one small image
PadRequests ==
    [image : {Some(SmallImage)},
     target_width : {None},
     target_height : {None},
     configured_padding : {None, Some(0), Some(5), Some(I32_MAX)},
     configured_rows : {None, Some(0), Some(1), Some(16777216)},
     offset_columns : {-I32_MAX - 1, -6, -5, 0, 1, I32_MAX},
     offset_rows : {-I32_MAX - 1, -2, -1, 0, 1, I32_MAX},
     ws : {None}]

NoImageResult == <<>>

\* the thread unwinds out of render_image: `attempt to add with overflow`
Panicked ==
    [err |-> "panic", chunks |-> <<>>, info |-> None, overflow |-> TRUE]

KittyIdle == image_req = <<>> /\ image_res = NoImageResult

RenderImage ==
    /\ image_res = NoImageResult
    /\ \E overflow_checks \in BOOLEAN :
        LET r == render_image(image_req.image, image_req.target_width,
                              image_req.target_height,
                              image_req.configured_padding,
                              image_req.configured_rows,
                              image_req.offset_columns,
                              image_req.offset_rows, image_req.ws)
        IN image_res' = IF overflow_checks /\ r.overflow THEN Panicked ELSE r
    /\ UNCHANGED <<collectVars, gpuVars, renderVars, shellVars, callVars, image_req>>

-----------------------------------------------------------------------------
(* get_shell: collectors/system.rs *)

KnownShells ==
    {"moonsh", "nushell", "fish", "bash", "zsh", "dash", "ksh", "csh", "tcsh",
     "nu"}

SkipProcesses ==
    {"swiftfetch", "fastfetch", "neofetch", "electron", "code", "cursor",
     "gnome-terminal", "konsole", "xterm", "alacritty", "kitty", "wezterm"}

\* for _ in 0..10
MAX_LEVELS == 10

\* the positions where a token of split_whitespace starts
TokenStarts(s) ==
    {i \in 1..Len(s) :
        /\ ~IsSpace(SubSeq(s, i, i))
        /\ i = 1 \/ IsSpace(SubSeq(s, i - 1, i - 1))}

\* the token that starts at position i: it runs up to the next white space
TokenAt(s, i) ==
    SubSeq(s, i, CHOOSE j \in i..Len(s) :
                    /\ j = Len(s) \/ IsSpace(SubSeq(s, j + 1, j + 1))
                    /\ \A k \in i..j : ~IsSpace(SubSeq(s, k, k)))

\* str::split_whitespace, as the sequence of its tokens
SplitWhitespace(s) ==
    [n \in 1..Cardinality(TokenStarts(s)) |->
        TokenAt(s, CHOOSE i \in TokenStarts(s) :
                      Cardinality({j \in TokenStarts(s) : j <= i}) = n)]

\* the value of a text of decimal digits, -1 when another character occurs
RECURSIVE DecimalValue(_)
DecimalValue(digits) ==
    IF digits = "" THEN 0
    ELSE IF Find("0123456789", SubSeq(digits, Len(digits), Len(digits))) = 0
            \/ DecimalValue(Upto(digits, Len(digits) - 1)) < 0
    THEN -1
    ELSE 10 * DecimalValue(Upto(digits, Len(digits) - 1))
         + Find("0123456789", SubSeq(digits, Len(digits), Len(digits))) - 1

\* str::parse::<u32> of a token of at most nine characters: decimal digits
\* after an optional `+`; None for Err
ParseU32(tok) ==
    LET digits == IF StartsWith(tok, "+") THEN Tail(tok) ELSE tok
    IN IF digits = "" \/ DecimalValue(digits) < 0 THEN None
       ELSE Some(DecimalValue(digits))

\* stat_content.split_whitespace().nth(3).and_then(|s| s.parse::<u32>().ok())
ParentPidField(stat_content) ==
    LET tokens == SplitWhitespace(stat_content)
    IN IF Len(tokens) < 4 THEN None ELSE ParseU32(tokens[4])

\* the loop runs its body again: an iteration is left and the process
\* `pid` is at hand
WalkContinuesMutant(level, pid) == pid # None

WalkContinues(level, pid) == level < MAX_LEVELS /\ pid # None

\* std::fs::read_to_string("/proc/{pid}/stat") and read_link("/proc/{pid}/exe")
ProcEntry(pid) ==
    IF pid \in DOMAIN procs THEN procs[pid] ELSE [stat |-> None, exe |-> None]

\* SHELL's text after the last `/`, "Unknown" when SHELL is not set
ShellFromEnv(shell_env) ==
    AfterLast(IF shell_env = None THEN "Unknown" ELSE shell_env[1], "/")

ShellIdle == procs = <<>> /\ walk = <<>>

\* processes of the host
MaxPids == 2

\* what /proc/self/stat holds: the process's own record, or unreadable
SelfStats ==
    {None} \cup {Some("9 (swiftfetch) R " \o ToString(p) \o " 9 9 0") :
                    p \in 1..MaxPids}

\* the executables of the processes 1, 2, ...: what read_link gives for
\* /proc/{pid}/exe, None when the link cannot be read
ExeLinks ==
    LET sh == Some("/usr/bin/sh")
        dash == Some("/usr/bin/dash")
        zsh == Some("/usr/local/bin/Zsh")
        kitty == Some("/usr/bin/kitty")
    IN {<<sh, zsh, dash, kitty>>, <<dash, zsh, sh, None>>,
        <<kitty, None, zsh, sh>>, <<None, kitty, sh, zsh>>,
        <<zsh, dash, kitty, None>>, <<sh, sh, zsh, zsh>>,
        <<kitty, dash, None, sh>>, <<None, None, kitty, dash>>}

\* the names (comm) of the processes 1, 2, ...: a name may hold spaces and
\* parentheses, as those of `tmux: server` and `(sd-pam)` do
CommNames ==
    {<<"proc", "proc", "proc", "proc">>,
     <<"tmux: server", "proc", "(sd-pam)", "proc">>,
     <<"a b 2 c", "(sd-pam)", "proc", "tmux: server">>,
     <<"(sd-pam)", "a b 1 c", "a b 2 c", "proc">>}

\* the text of /proc/{pid}/stat: pid, (name), state, parent pid, ...
StatText(pid, comm, ppid) ==
    ToString(pid) \o " (" \o comm \o ") S " \o ToString(ppid) \o " 1 1 0"

\* the process table: for every pid its stat file, with any parent pid from
\* 0 to MaxPids (its own included) or unreadable (-1), and its exe link
ProcTables ==
    {[pid \in 1..MaxPids |->
        [stat |-> IF ppid[pid] < 0 THEN None
                  ELSE Some(StatText(pid, comm[pid], ppid[pid])),
         exe |-> exe[pid]]] :
        ppid \in [1..MaxPids -> -1..MaxPids], exe \in ExeLinks,
        comm \in CommNames}

SHELLs == {None, Some("/usr/bin/fish"), Some("zsh")}

\* let mut current_pid = ... "/proc/self/stat" ...
ShellStart ==
    /\ walk.pc = "start"
    /\ \E self_stat \in SelfStats :
        walk' = [walk EXCEPT
                    !.pc = "loop",
                    !.start = IF self_stat = None THEN None
                              ELSE ParentPidField(self_stat[1]),
                    !.current_pid = IF self_stat = None THEN None
                                    ELSE ParentPidField(self_stat[1])]
    /\ UNCHANGED <<collectVars, gpuVars, renderVars, kittyVars, callVars, procs>>

\* one iteration of the loop's body, on the walk w: what the walk becomes
LoopBody(w) ==
    LET entry == ProcEntry(w.current_pid[1])
        exe_name_lower ==
            IF entry.exe = None THEN None
            ELSE Some(ToLowercase(AfterLast(entry.exe[1], "/")))
    IN IF entry.stat = None
       THEN [w EXCEPT !.pc = "fallback", !.level = @ + 1]
       ELSE IF exe_name_lower # None /\ exe_name_lower[1] \in KnownShells
       THEN [w EXCEPT !.pc = "done", !.level = @ + 1,
                      !.ret = Some(exe_name_lower[1])]
       ELSE IF /\ exe_name_lower # None
               /\ \E skip \in SkipProcesses : Contains(exe_name_lower[1], skip)
       THEN \* current_pid = next_pid; continue
            [w EXCEPT !.level = @ + 1,
                      !.current_pid = ParentPidField(entry.stat[1])]
       ELSE IF exe_name_lower \in {Some("sh"), Some("dash")}
       THEN \* current_pid = next_pid; continue
            [w EXCEPT !.level = @ + 1,
                      !.current_pid = ParentPidField(entry.stat[1])]
       ELSE \* move to next PID
            [w EXCEPT !.level = @ + 1,
                      !.current_pid = ParentPidField(entry.stat[1])]

ShellStep ==
    /\ walk.pc = "loop"
    /\ WalkContinues(walk.level, walk.current_pid)
    /\ \E next \in {LoopBody(walk)} : walk' = next
    /\ UNCHANGED <<collectVars, gpuVars, renderVars, kittyVars, callVars, procs>>

\* the loop ends: ten iterations done, or `else { break }`
ShellLoopEnd ==
    /\ walk.pc = "loop"
    /\ ~WalkContinues(walk.level, walk.current_pid)
    /\ walk' = [walk EXCEPT !.pc = "fallback"]
    /\ UNCHANGED <<collectVars, gpuVars, renderVars, kittyVars, callVars, procs>>

\* std::env::var("SHELL") ... .split('/').last()
ShellFallback ==
    /\ walk.pc = "fallback"
    /\ \E shell_env \in SHELLs :
        walk' = [walk EXCEPT !.pc = "done", !.shell_env = shell_env,
                            !.ret = Some(ShellFromEnv(shell_env))]
    /\ UNCHANGED <<collectVars, gpuVars, renderVars, kittyVars, callVars, procs>>

-----------------------------------------------------------------------------
(* Calls of single functions.  `call` holds the function's name, its       *)
(* arguments and what it finds in the environment; the action of the       *)
(* function stores what it returns.                                        *)

NoCall == [fn |-> "none"]

CallIdle == call = NoCall /\ result = None

\* colour strings of a configuration (ASCII text)
ColorTexts ==
    {"red", "RED", "Bright_Blue", "grey", "orange", "reset", "#FF0000",
     "#ff8800", "#00Ff7f", "#000000", "not-a-color", "#GG0000", "#FFF",
     "#FF00000", "FF0000#", "", "#+F0000"}

HexToAnsiCalls == [fn : {"hex_to_ansi"}, color : ColorTexts]

HexToAnsi ==
    /\ call.fn = "hex_to_ansi"
    /\ result = None
    /\ result' = Some(hex_to_ansi(call.color))
    /\ UNCHANGED <<collectVars, gpuVars, renderVars, kittyVars, shellVars, call>>

\* colour keys of items and of ascii_color, beside the colour table
ColorKeyCalls ==
    [fn : {"get_cached_color"},
     colors : {Colors, [c1 |-> "not-a-color"]},
     color_key : {"c1", "c2", "art", "red", "Grey", "#FF0000", "#00ff7f",
                  "nope", ""}]

GetCachedColor ==
    /\ call.fn = "get_cached_color"
    /\ result = None
    /\ result' = Some(ResolveColorKey(call.colors, call.color_key))
    /\ UNCHANGED <<collectVars, gpuVars, renderVars, kittyVars, shellVars, call>>

\* a panic: the thread unwinds and the function returns no value
PANIC == "<panic>"

-----------------------------------------------------------------------------
(* detect_wm_or_de: collectors/desktop.rs *)

\* char::to_uppercase of a character
UpperChar(c) ==
    IF \E u \in DOMAIN LowerOf : LowerOf[u] = c
    THEN CHOOSE u \in DOMAIN LowerOf : LowerOf[u] = c
    ELSE c

\* format!("{}{}", first.to_uppercase(), &s[1..]): the slice starts at byte
\* 1, which lies inside the first character when that has several bytes
capitalize_first_letter(s) ==
    IF s = "" THEN s
    ELSE IF CharBytes(SubSeq(s, 1, 1)) > 1 THEN PANIC
    ELSE UpperChar(SubSeq(s, 1, 1)) \o Tail(s)

WmNames ==
    {"sway", "hyprland", "kwin_wayland", "kwin_x11", "niri", "mutter", "xfwm4",
     "openbox", "i3", "bspwm", "awesome", "weston", "gnome-session"}

\* if count > 50 { break; }
SCAN_LIMIT == 50

\* the loop over the entries of /proc from entry i on, with `count` pid
\* directories seen: an entry is [pid |-> whether its name is a number,
\* comm |-> the content of its comm file, None when unreadable]
RECURSIVE ScanProc(_, _, _)
ScanProc(entries, i, count) ==
    IF i > Len(entries) \/ count > SCAN_LIMIT THEN "Unknown"
    ELSE IF ~entries[i].pid THEN ScanProc(entries, i + 1, count)
    ELSE IF entries[i].comm = None THEN ScanProc(entries, i + 1, count + 1)
    ELSE IF \E wm \in WmNames :
                \/ Trim(entries[i].comm[1]) = wm
                \/ StartsWith(Trim(entries[i].comm[1]), wm)
    THEN IF \/ Trim(entries[i].comm[1]) = "gnome-session"
            \/ StartsWith(Trim(entries[i].comm[1]), "gnome-session-")
         THEN "GNOME"
         ELSE capitalize_first_letter(Trim(entries[i].comm[1]))
    ELSE ScanProc(entries, i + 1, count + 1)

\* e: XDG_CURRENT_DESKTOP, DESKTOP_SESSION and WAYLAND_DISPLAY (None when not
\* set) and the entries of /proc (None when read_dir fails)
detect_wm_or_de(e) ==
    LET env_var == IF e.xdg_current_desktop # None THEN e.xdg_current_desktop
                   ELSE e.desktop_session
    IN IF env_var # None /\ env_var[1] # ""
       THEN capitalize_first_letter(env_var[1])
       ELSE IF e.wayland_display # None THEN "Wayland"
       ELSE IF e.proc = None THEN "Unknown"
       ELSE ScanProc(e.proc[1], 1, 0)

Process(comm) == [pid |-> TRUE, comm |-> Some(comm \o "\n")]

\* /proc listings: kernel entries, processes in the order read_dir gives
\* them, a comm file that vanished, and a window manager behind more than
\* SCAN_LIMIT other processes
ProcListings ==
    {None, Some(<<>>),
     Some(<<[pid |-> FALSE, comm |-> None], Process("systemd"), Process("i3")>>),
     Some(<<Process("systemd"), Process("i3bar"), Process("bash")>>),
     Some(<<Process("i3bar"), Process("i3")>>),
     Some(<<[pid |-> TRUE, comm |-> None], Process("gnome-session-b")>>),
     Some(<<Process("kwin_wayland"), Process("gnome-session")>>),
     Some(<<Process("bash"), Process("Xorg")>>),
     Some([i \in 1..(SCAN_LIMIT + 2) |->
            IF i = SCAN_LIMIT + 2 THEN Process("sway") ELSE Process("kworker")])}

DetectWmCalls ==
    [fn : {"detect_wm_or_de"},
     xdg_current_desktop : {None, Some(""), Some("KDE"), Some("sway")},
     desktop_session : {None, Some(""), Some("plasma"), Some("%toile")},
     wayland_display : {None, Some("wayland-1")},
     proc : ProcListings]

DetectWmOrDe ==
    /\ call.fn = "detect_wm_or_de"
    /\ result = None
    /\ result' = Some(detect_wm_or_de(call))
    /\ UNCHANGED <<collectVars, gpuVars, renderVars, kittyVars, shellVars, call>>

-----------------------------------------------------------------------------
(* detect_package_manager: collectors/packages.rs; detect_init_system:     *)
(* collectors/system.rs.  The host h is the set of paths that exist, the   *)
(* set of programs found in PATH and what the commands it runs give.       *)

FileExistsMutant(h, path) == FALSE

\* utils::file::file_exists
file_exists(h, path) == path \in h.paths

\* utils::command::command_exists
command_exists(h, program) == program \in h.commands

detect_package_manager(h) ==
    LET is_nix_system == command_exists(h, "nix-store")
        is_void_system ==
            file_exists(h, "/var/db/xbps") \/ command_exists(h, "xbps-query")
        is_debian_system ==
            file_exists(h, "/var/lib/dpkg/status") \/ command_exists(h, "apt")
        is_fedora_system ==
            \/ file_exists(h, "/var/lib/rpm")
            \/ command_exists(h, "dnf")
            \/ command_exists(h, "yum")
        is_gentoo_system ==
            file_exists(h, "/var/db/pkg") \/ command_exists(h, "emerge")
    IN IF file_exists(h, "/var/lib/pacman/local") THEN Some("Pacman")
       ELSE IF file_exists(h, "/var/lib/dpkg/status") THEN Some("Apt")
       ELSE IF file_exists(h, "/var/lib/rpm") THEN Some("Dnf")
       ELSE IF file_exists(h, "/var/db/xbps") THEN Some("Xbps")
       ELSE IF file_exists(h, "/var/db/pkg") THEN Some("Portage")
       ELSE IF is_nix_system THEN Some("Nix")
       ELSE IF is_void_system THEN Some("Xbps")
       ELSE IF is_debian_system THEN Some("Apt")
       ELSE IF is_fedora_system THEN Some("Dnf")
       ELSE IF is_gentoo_system THEN Some("Portage")
       ELSE None

\* get_package_count: h.count is what the selected manager's counting
\* function returns, None for Err
get_package_count(h) ==
    IF detect_package_manager(h) = None THEN Some(0) ELSE h.count

\* collect_package_info: get_package_count().unwrap_or(0)
system_packages(h) ==
    IF get_package_count(h) = None THEN 0 ELSE get_package_count(h)[1]

PackageMarkers ==
    {"/var/lib/pacman/local", "/var/lib/dpkg/status", "/var/lib/rpm",
     "/var/db/xbps", "/var/db/pkg"}

PackageCommands == {"nix-store", "xbps-query", "apt", "dnf", "yum", "emerge"}

PackageCalls ==
    [fn : {"get_package_count"},
     paths : SUBSET PackageMarkers,
     commands : SUBSET PackageCommands,
     count : {None, Some(7)}]

GetPackageCount ==
    /\ call.fn = "get_package_count"
    /\ result = None
    /\ result' = Some([manager |-> detect_package_manager(call),
                       system_packages |-> system_packages(call)])
    /\ UNCHANGED <<collectVars, gpuVars, renderVars, kittyVars, shellVars, call>>

\* utils::command::command_succeeds("systemctl", ["--version"])
command_succeeds(h, program) == program \in h.succeeding

\* detect_init_system: the name it returns and the commands it has run
detect_init_system(h) ==
    IF \/ file_exists(h, "/run/systemd/system")
       \/ file_exists(h, "/usr/lib/systemd/systemd")
       \/ file_exists(h, "/etc/systemd/system")
    THEN [init |-> "systemd", ran |-> {}]
    ELSE IF command_succeeds(h, "systemctl")
    THEN [init |-> "systemd", ran |-> {"systemctl"}]
    ELSE IF file_exists(h, "/sbin/openrc") \/ file_exists(h, "/usr/sbin/openrc")
    THEN [init |-> "OpenRC", ran |-> {"systemctl"}]
    ELSE IF file_exists(h, "/etc/runit")
    THEN [init |-> "runit", ran |-> {"systemctl"}]
    ELSE IF file_exists(h, "/etc/init.d")
    THEN [init |-> "SysV", ran |-> {"systemctl"}]
    ELSE IF file_exists(h, "/etc/s6")
    THEN [init |-> "s6", ran |-> {"systemctl"}]
    ELSE [init |-> "Unknown", ran |-> {"systemctl"}]

InitMarkers ==
    {"/run/systemd/system", "/usr/lib/systemd/systemd", "/etc/systemd/system",
     "/sbin/openrc", "/usr/sbin/openrc", "/etc/runit", "/etc/init.d", "/etc/s6"}

DetectInitCalls ==
    [fn : {"detect_init_system"},
     paths : SUBSET InitMarkers,
     succeeding : {{}, {"systemctl"}}]

DetectInitSystem ==
    /\ call.fn = "detect_init_system"
    /\ result = None
    /\ result' = Some(detect_init_system(call))
    /\ UNCHANGED <<collectVars, gpuVars, renderVars, kittyVars, shellVars, call>>

-----------------------------------------------------------------------------
(* read_first_line (utils/file.rs) *)

\* let mut buffer = [0u8; 256]
BUFFER_LEN == 256

\* the length in bytes of a text, counted without recursion
BytesOf(s) ==
    Len(s) + Cardinality({i \in 1..Len(s) : SubSeq(s, i, i) = "%"})
           + 2 * Cardinality({i \in 1..Len(s) : SubSeq(s, i, i) = "&"})

\* the number of leading characters of content that lie wholly within its
\* first n bytes
CharsWithin(content, n) ==
    CHOOSE k \in 0..Min(Len(content), n) :
        /\ BytesOf(SubSeq(content, 1, k)) <= n
        /\ \A m \in (k + 1)..Min(Len(content), n) :
                BytesOf(SubSeq(content, 1, m)) > n

\* content.lines().next().unwrap_or("")
FirstLine(content) ==
    LET line == BeforeFirst(content, "\n")
    IN IF line # "" /\ SubSeq(line, Len(line), Len(line)) = "\r" THEN Upto(line, Len(line) - 1) ELSE line

\* file is None when open fails, Some(content) otherwise.  One read of at
\* most 256 bytes; a character cut by the end of the buffer makes from_utf8
\* fail
read_first_line(file) ==
    IF file = None THEN Err("Io")
    ELSE IF file[1] = "" THEN Ok("")
    ELSE LET k == CharsWithin(file[1], BUFFER_LEN)
             read == SubSeq(file[1], 1, k)
         IN IF k < Len(file[1]) /\ BytesOf(read) < BUFFER_LEN
            THEN Err("Invalid UTF-8")
            ELSE Ok(Trim(FirstLine(read)))

Doubled(s) == s \o s

\* 252 bytes of one-byte characters
Filler == LET a63 == "host-name-of-machine-" \o "host-name-of-machine-"
                     \o "host-name-of-machine-"
          IN Doubled(Doubled(a63))

FileContents ==
    {None, Some(""), Some("\n"), Some("archbox\n"), Some("  archbox \r\nsecond\n"),
     Some("5123.45 20111.98\n"),
     Some(Filler \o "abcd"), Some(Filler \o "abcdefgh\n"),
     Some(Filler \o "abc%\n"), Some(Filler \o "ab%\n"), Some("%a\n")}

ReadFirstLineCalls == [fn : {"read_first_line"}, file : FileContents]

ReadFirstLine ==
    /\ call.fn = "read_first_line"
    /\ result = None
    /\ result' = Some(read_first_line(call.file))
    /\ UNCHANGED <<collectVars, gpuVars, renderVars, kittyVars, shellVars, call>>

-----------------------------------------------------------------------------
(* get_disk_usage (collectors/hardware.rs).  In the texts of this section   *)
(* "%" is the percent sign itself.                                          *)

\* A u64 byte count is kept as the pair of its millions and the rest below
\* a million, bytes = hi * 10^6 + lo, so that counts of 10^12 and more have
\* a value
MEGA == 1000000

Big(hi, lo) == [hi |-> hi + lo \div MEGA, lo |-> lo % MEGA]

BigLess(p, q) == p.hi < q.hi \/ (p.hi = q.hi /\ p.lo < q.lo)

BigTimes(p, n) == Big(p.hi * n, p.lo * n)

\* p - q for q <= p
BigMinus(p, q) ==
    IF p.lo >= q.lo THEN Big(p.hi - q.hi, p.lo - q.lo)
    ELSE Big(p.hi - q.hi - 1, p.lo + MEGA - q.lo)

\* stat.f_blocks.wrapping_mul(stat.f_frsize as u64), for products below 2^64:
\* blocks = a * 10^5 + b
BigProduct(blocks, frsize) ==
    LET x == (blocks \div 100000) * frsize
        y == (blocks % 100000) * frsize
    IN Big(x \div 10, (x % 10) * 100000 + y)

FormatSizeMutant(bytes) ==
    IF BigLess(bytes, Big(0, 1024)) THEN ToString(bytes.lo) \o "B"
    ELSE ToString(bytes.hi * 976 + bytes.lo \div 1024) \o "K"

\* format!("{:.1}", bytes as f64 / unit), unit = k * 10^6: one decimal,
\* rounded to the nearest tenth.  At a decimal tie the f64 quotient decides;
\* for the quarters (x.25, x.75), which an f64 holds exactly, that is the
\* even digit
OneDecimal(bytes, k) ==
    LET floor == IF k = 1 THEN 10 * bytes.hi + bytes.lo \div 100000
                 ELSE bytes.hi \div (k \div 10)
        rest == IF k = 1 THEN Big(0, bytes.lo % 100000)
                ELSE Big(bytes.hi % (k \div 10), bytes.lo)
        half == IF k = 1 THEN Big(0, 50000) ELSE Big(k \div 20, 0)
        up == BigLess(half, rest) \/ (rest = half /\ floor % 2 = 1)
        tenths == floor + (IF up THEN 1 ELSE 0)
    IN ToString(tenths \div 10) \o "." \o ToString(tenths % 10)

\* the closure format_size
format_size(bytes) ==
    IF bytes.hi >= MEGA THEN OneDecimal(bytes, MEGA) \o "T"
    ELSE IF bytes.hi >= 1000 THEN OneDecimal(bytes, 1000) \o "G"
    ELSE IF bytes.hi >= 1 THEN OneDecimal(bytes, 1) \o "M"
    ELSE ToString(bytes.lo \div 1024) \o "K"

PercentMutant(used_bytes, total_bytes) ==
    CHOOSE c \in 0..100 :
        /\ ~BigLess(BigTimes(total_bytes, c), BigTimes(used_bytes, 100))
        /\ c > 0 => BigLess(BigTimes(total_bytes, c - 1), BigTimes(used_bytes, 100))

\* ((used_bytes as f64 / total_bytes as f64) * 100.0) as u64, for
\* used_bytes <= total_bytes: the floor of the exact quotient, which is what
\* the f64 computation gives for the statvfs results drawn below
Percent(used_bytes, total_bytes) ==
    CHOOSE c \in 0..100 :
        /\ ~BigLess(BigTimes(used_bytes, 100), BigTimes(total_bytes, c))
        /\ c < 100 => BigLess(BigTimes(used_bytes, 100), BigTimes(total_bytes, c + 1))

\* a panic inside a function that returns Result: neither Ok nor an Err
\* value the code builds
Panic == [err |-> PANIC, val |-> <<>>]

\* the df fallback, over the lines of the output from line i on:
\* parts[4] is read whenever a line has at least four fields
RECURSIVE DfUsage(_, _)
DfUsage(lines, i) ==
    IF i > Len(lines)
    THEN Err("Disk usage not found")
    ELSE LET parts == SplitWhitespace(lines[i])
         IN IF Len(parts) >= 4
            THEN IF Len(parts) < 5 THEN Panic
                 ELSE Ok(parts[3] \o " / " \o parts[2] \o " (" \o parts[5] \o ")")
            ELSE DfUsage(lines, i + 1)

\* h.statvfs is None when statvfs("/") fails, the fields it fills otherwise;
\* h.df is None when `df -h /` cannot be run or fails, the lines of its
\* trimmed output otherwise
get_disk_usage(h) ==
    IF h.statvfs # None
    THEN LET stat == h.statvfs[1]
             total_bytes == BigProduct(stat.f_blocks, stat.f_frsize)
             available_bytes == BigProduct(stat.f_bavail, stat.f_frsize)
             used_bytes == IF BigLess(total_bytes, available_bytes) THEN Big(0, 0)
                           ELSE BigMinus(total_bytes, available_bytes)
             percent == IF total_bytes # Big(0, 0)
                        THEN Percent(used_bytes, total_bytes) ELSE 0
         IN Ok(format_size(used_bytes) \o " / " \o format_size(total_bytes)
               \o " (" \o ToString(percent) \o "%)")
    ELSE IF h.df = None THEN Err("Command 'df' failed")
    ELSE DfUsage(h.df[1], 2)

BlockCounts == {0, 1, 100, 200, 1000, 2000, 244140, 244141, 498000, 500000,
                122070313, 244140625, 366210938, 500000000}

FragmentSizes == {512, 4096}

StatvfsResults ==
    {None} \cup {Some(st) : st \in [f_blocks : BlockCounts, f_bavail : BlockCounts,
                                    f_frsize : FragmentSizes]}

DfHeader == "Filesystem      Size  Used Avail Use% Mounted on"

DfLines ==
    {"/dev/nvme0n1p2  234G  101G  122G  46% /",
     "/dev/mapper/vg0-root",
     "                234G  101G  122G  46% /",
     "overlay  234G  101G  122G",
     "",
     "tmpfs 16G 0 16G 0% /"}

MaxDfLines == 2

DfOutputs ==
    {None, Some(<<>>)}
    \cup {Some(<<DfHeader>> \o q) : q \in SeqsUpTo(DfLines, MaxDfLines)}

DiskUsageCalls ==
    [fn : {"get_disk_usage"}, statvfs : StatvfsResults, df : {None}]
    \cup [fn : {"get_disk_usage"},
          statvfs : {None, Some([f_blocks |-> 2000, f_bavail |-> 1000,
                                 f_frsize |-> 4096])},
          df : DfOutputs]

GetDiskUsage ==
    /\ call.fn = "get_disk_usage"
    /\ result = None
    /\ result' = Some(get_disk_usage(call))
    /\ UNCHANGED <<collectVars, gpuVars, renderVars, kittyVars, shellVars, call>>

\* bracket contents: lists of SKU names separated by " / "
SkuNames ==
    {"Radeon RX 7700 XT", "7800 XT", "Radeon RX 6800", "6800 XT", "6900 XT ",
     "Navi 32", "Radeon Pro W7700"}

MaxSkus == 3

RECURSIVE JoinSkus(_)
JoinSkus(skus) ==
    IF Len(skus) = 1 THEN skus[1] ELSE skus[1] \o " / " \o JoinSkus(Tail(skus))

BracketContents == {JoinSkus(q) : q \in SeqsUpTo(SkuNames, MaxSkus) \ {<<>>}}

ResolveCalls == [fn : {"resolve_amd_gpu_range"}, bracket_content : BracketContents]

ResolveAmdGpuRange ==
    /\ call.fn = "resolve_amd_gpu_range"
    /\ result = None
    /\ result' = Some(resolve_amd_gpu_range(call.bracket_content))
    /\ UNCHANGED <<collectVars, gpuVars, renderVars, kittyVars, shellVars, call>>

\* byte counts around the thresholds and around the roundings
ByteCounts ==
    {Big(hi, lo) :
        hi \in {0, 1, 2, 999, 1000, 1249, 1250, 1500, 2000, 999949, 999999,
                1000000, 1500000, 2000000},
        lo \in {0, 1, 1023, 2048, 49999, 50001, 250000, 500000, 949999, 950001,
                999999}}

FormatSizeCalls == [fn : {"format_size"}, bytes : ByteCounts]

FormatSize ==
    /\ call.fn = "format_size"
    /\ result = None
    /\ result' = Some(format_size(call.bytes))
    /\ UNCHANGED <<collectVars, gpuVars, renderVars, kittyVars, shellVars, call>>

-----------------------------------------------------------------------------
(* read_memory_info (collectors/hardware.rs), read_uptime and               *)
(* get_battery_info (collectors/system.rs), format_uptime (utils/parsing.rs) *)
(* An f64 is kept as its value in hundredths; the texts parsed below hold   *)
(* an optional sign, decimal digits and at most two decimals.               *)

\* str::parse::<f64>, None for Err
ParseF64(text) ==
    LET body == IF StartsWith(text, "-") \/ StartsWith(text, "+")
                THEN Tail(text) ELSE text
        whole == BeforeFirst(body, ".")
        frac == IF Contains(body, ".") THEN From(body, Find(body, ".") + 1) ELSE ""
        mag == 100 * DecimalValue(whole) + DecimalValue(SubSeq(frac \o "00", 1, 2))
    IN IF \/ whole = "" /\ frac = ""
          \/ DecimalValue(whole) < 0
          \/ DecimalValue(frac) < 0
       THEN None
       ELSE Some(IF StartsWith(text, "-") THEN 0 - mag ELSE mag)

\* `x as u64` of an f64: truncated, a negative value gives 0
AsU64(x) == IF x <= 0 THEN 0 ELSE x \div 100

\* line.split(':').nth(1)
SecondColonField(line) ==
    IF ~Contains(line, ":") THEN None
    ELSE Some(BeforeFirst(From(line, Find(line, ":") + 1), ":"))

extract_memory_from_line(line) ==
    LET field == SecondColonField(line)
        parsed == IF field = None THEN None
                  ELSE ParseF64(RemoveAll(Trim(field[1]), " kB"))
    IN IF parsed = None THEN 0 ELSE parsed[1]

\* the loop of read_memory_info from line i on; m holds total, available,
\* found_total and found_available
RECURSIVE MemScan(_, _, _)
MemScan(lines, i, m) ==
    IF i > Len(lines) \/ (m.found_total /\ m.found_available) THEN m
    ELSE IF ~m.found_total /\ StartsWith(lines[i], "MemTotal")
    THEN MemScan(lines, i + 1,
                 [m EXCEPT !.total = extract_memory_from_line(lines[i]),
                           !.found_total = TRUE])
    ELSE IF ~m.found_available /\ StartsWith(lines[i], "MemAvailable")
    THEN MemScan(lines, i + 1,
                 [m EXCEPT !.available = extract_memory_from_line(lines[i]),
                           !.found_available = TRUE])
    ELSE MemScan(lines, i + 1, m)

\* meminfo is None when /proc/meminfo cannot be opened, its lines otherwise.
\* total_gb and used_gb are kept as the kB values they are divided from
\* (x / 1024.0 / 1024.0 keeps the sign and the order of x)
read_memory_info(meminfo) ==
    IF meminfo = None THEN Err("Io")
    ELSE LET m == MemScan(meminfo[1], 1,
                          [total |-> 0, available |-> 0,
                           found_total |-> FALSE, found_available |-> FALSE])
             used == m.total - m.available
         IN Ok([total_gb |-> m.total, used_gb |-> used])

MemLines ==
    {"MemTotal:       16384000 kB\n", "MemTotal:        4096000 kB\n",
     "MemAvailable:    8192000 kB\n", "MemAvailable:    512.25 kB\n",
     "MemFree:          100000 kB\n", "MemTotal:       plenty kB\n",
     "MemTotal\n"}

MaxMemLines == 3

MemoryCalls ==
    [fn : {"read_memory_info"},
     meminfo : {None} \cup {Some(q) : q \in SeqsUpTo(MemLines, MaxMemLines)}]

ReadMemoryInfo ==
    /\ call.fn = "read_memory_info"
    /\ result = None
    /\ result' = Some(read_memory_info(call.meminfo))
    /\ UNCHANGED <<collectVars, gpuVars, renderVars, kittyVars, shellVars, call>>

\* uptime is what /proc/uptime holds, None when it cannot be opened
read_uptime(uptime) ==
    LET line == read_first_line(uptime)
        tokens == IF line.err # "" THEN <<>> ELSE SplitWhitespace(line.val)
        parsed == ParseF64(IF tokens = <<>> THEN "0" ELSE tokens[1])
    IN IF line.err # "" THEN line
       ELSE Ok(AsU64(IF parsed = None THEN 0 ELSE parsed[1]))

\* format!("{:02}", n)
TwoDigits(n) == IF n < 10 THEN "0" \o ToString(n) ELSE ToString(n)

FormatUptimeMutant(seconds) ==
    IF seconds >= 3600
    THEN ToString(seconds \div 3600) \o "h " \o ToString((seconds % 3600) \div 60) \o "m"
    ELSE ToString(seconds \div 60) \o "m"

format_uptime(seconds) ==
    LET hours == seconds \div 3600
        minutes == (seconds % 3600) \div 60
    IN IF hours > 0 THEN ToString(hours) \o "h " \o TwoDigits(minutes) \o "m"
       ELSE ToString(minutes) \o "m"

\* the status icons, which are not ASCII in the source
StatusIcon(status) ==
    CASE status = "Charging" -> "<zap>"
      [] status = "Not charging" -> "<plug>"
      [] OTHER -> "<battery>"

\* the loop over the entries of /sys/class/power_supply from entry i on
RECURSIVE BatteryScan(_, _)
BatteryScan(entries, i) ==
    IF i > Len(entries) THEN Err("No battery found")
    ELSE LET e == entries[i]
         IN IF /\ StartsWith(e.name, "BAT")
               /\ e.capacity # None
               /\ e.status # None
            THEN Ok(Trim(e.capacity[1]) \o "% " \o StatusIcon(Trim(e.status[1])))
            ELSE BatteryScan(entries, i + 1)

GetBatteryInfoMutant(power_supply) ==
    IF power_supply = None \/ power_supply[1] = <<>> THEN Err("No battery found")
    ELSE Ok("0% " \o StatusIcon("Unknown"))

\* power_supply is None when the directory cannot be read, its entries
\* otherwise
get_battery_info(power_supply) ==
    IF power_supply = None THEN Err("No battery found")
    ELSE BatteryScan(power_supply[1], 1)

\* collect_system_status, with the fields that come from a reader that can
\* fail: uptime_seconds, uptime_formatted and battery_info (init_system,
\* desktop_environment, editor, shell and terminal are the Strings of
\* detect_init_system, detect_wm_or_de, get_editor, get_shell, get_terminal)
collect_system_status(h) ==
    LET uptime_seconds == read_uptime(h.uptime)
        battery == get_battery_info(h.power_supply)
    IN IF uptime_seconds.err # "" THEN uptime_seconds
       ELSE Ok([uptime_seconds |-> uptime_seconds.val,
                uptime_formatted |-> format_uptime(uptime_seconds.val),
                battery_info |-> IF battery.err # "" THEN "No battery"
                                 ELSE battery.val])

UptimeSeconds == (0..125) \cup (3590..3670) \cup {86399, 86400, 360000, 21474836}

UptimeFiles ==
    {None, Some(""), Some("\n"), Some("-3.50 1.00\n"), Some("up 1\n"),
     Some("59.99\n"), Some("+61 0\n")}
    \cup {Some(ToString(sec) \o ".42 9.00\n") : sec \in UptimeSeconds}

PowerEntries ==
    {[name |-> "BAT0", capacity |-> Some("87\n"), status |-> Some("Charging\n")],
     [name |-> "BAT1", capacity |-> Some("100\n"), status |-> Some("Full\n")],
     [name |-> "BAT0", capacity |-> None, status |-> Some("Discharging\n")],
     [name |-> "BAT0", capacity |-> Some("5\n"), status |-> None],
     [name |-> "AC", capacity |-> None, status |-> None],
     [name |-> "hidpp_battery_0", capacity |-> Some("50\n"),
      status |-> Some("Not charging\n")]}

MaxPowerEntries == 2

PowerSupplies ==
    {None} \cup {Some(q) : q \in SeqsUpTo(PowerEntries, MaxPowerEntries)}

StatusCalls ==
    [fn : {"collect_system_status"}, uptime : UptimeFiles,
     power_supply : {None, Some(<<>>)}]
    \cup [fn : {"collect_system_status"}, uptime : {Some("3661.20 9.00\n"), None},
          power_supply : PowerSupplies]

CollectSystemStatus ==
    /\ call.fn = "collect_system_status"
    /\ result = None
    /\ result' = Some(collect_system_status(call))
    /\ UNCHANGED <<collectVars, gpuVars, renderVars, kittyVars, shellVars, call>>

-----------------------------------------------------------------------------
(* Specifications *)

CollectIdle ==
    /\ host = {}
    /\ task = [n \in Nodes |-> "new"]
    /\ res = [n \in Nodes |-> NoRes]
    /\ pool = EmptyBag
    /\ pc = "idle"
    /\ ret = NoRes

InitCollect ==
    /\ ShellIdle
    /\ CallIdle
    /\ GpuIdle
    /\ RenderIdle
    /\ KittyIdle
    /\ host \in Hosts
    /\ task = [n \in Nodes |-> "new"]
    /\ res = [n \in Nodes |-> NoRes]
    /\ pool = [w \in {IdleWorker} |-> NumWorkers]
    /\ pc = "calling"
    /\ ret = NoRes

NextCollect ==
    \/ CallCollect
    \/ Return
    \/ \E w \in Workers :
        \/ TakeInjected(w)
        \/ RunLeaf(w)
        \/ StatusReadUptime(w)
        \/ WakeJoin(w)
        \/ \E v \in Workers : Steal(w, v)

SpecCollect == InitCollect /\ [][NextCollect]_vars

InitGpu ==
    /\ ShellIdle
    /\ CallIdle
    /\ CollectIdle
    /\ RenderIdle
    /\ KittyIdle
    /\ gpuHost \in GpuHosts
    /\ gpuInfo = NoGpuInfo

NextGpu == CollectGpuInfo

SpecGpu == InitGpu /\ [][NextGpu]_vars

InitRender ==
    /\ ShellIdle
    /\ CallIdle
    /\ CollectIdle
    /\ GpuIdle
    /\ KittyIdle
    /\ \E inp \in RenderInputs :
        /\ r_config = inp.config
        /\ r_system_data = inp.system_data
        /\ r_files = inp.files
    /\ rendered = None

NextRender == RenderOutput

SpecRender == InitRender /\ [][NextRender]_vars

InitKitty ==
    /\ ShellIdle
    /\ CallIdle
    /\ CollectIdle
    /\ GpuIdle
    /\ RenderIdle
    /\ image_req \in ImageRequests \cup PadRequests
    /\ image_res = NoImageResult

NextKitty == RenderImage

SpecKitty == InitKitty /\ [][NextKitty]_vars

InitShell ==
    /\ CollectIdle
    /\ GpuIdle
    /\ RenderIdle
    /\ KittyIdle
    /\ CallIdle
    /\ procs \in ProcTables
    /\ walk = [pc |-> "start", start |-> None, current_pid |-> None, level |-> 0,
               shell_env |-> None, ret |-> None]

NextShell ==
    \/ ShellStart
    \/ ShellStep
    \/ ShellLoopEnd
    \/ ShellFallback

SpecShell == InitShell /\ [][NextShell]_vars

InitCalls ==
    /\ CollectIdle
    /\ GpuIdle
    /\ RenderIdle
    /\ KittyIdle
    /\ ShellIdle
    /\ call \in HexToAnsiCalls \cup ColorKeyCalls \cup DetectWmCalls
                \cup PackageCalls \cup DetectInitCalls
                \cup ReadFirstLineCalls \cup DiskUsageCalls
                \cup MemoryCalls \cup StatusCalls \cup FormatSizeCalls
                \cup ResolveCalls
    /\ result = None

NextCalls ==
    \/ HexToAnsi
    \/ GetCachedColor
    \/ DetectWmOrDe
    \/ GetPackageCount
    \/ DetectInitSystem
    \/ ReadFirstLine
    \/ GetDiskUsage
    \/ ReadMemoryInfo
    \/ CollectSystemStatus
    \/ FormatSize
    \/ ResolveAmdGpuRange

SpecCalls == InitCalls /\ [][NextCalls]_vars

-----------------------------------------------------------------------------
(* Claims about collect_system_info *)

Returned == pc = "returned"

\* C1: collect_system_info returns an error only when the hostname read
\* fails; the failure of any other collector read never aborts the aggregate.
C1_OnlyHostnameAborts ==
    Returned /\ ret.err # "" => "hostname" \in host

\* C2: the snapshot or the error is produced only after all five collector
\* tasks and every sub-task they spawned have completed: when the call has
\* returned no task is queued or running, and a task that never ran is a
\* sub-task of the status collector, which returned before spawning it.
C2_JoinBeforeReturn ==
    Returned =>
        /\ \A i \in 1..Len(Collectors) : task[Collectors[i]] = "done"
        /\ \A n \in Nodes :
            \/ task[n] = "done"
            \/ n \in StatusSubtree /\ task[n] = "new" /\ "uptime" \in host
        /\ \A w \in Workers : w = IdleWorker

\* C2 witness: a call that returned after every sub-task ran
C2_Witness ==
    Returned /\ \A n \in Nodes : task[n] = "done"

\* the host sources each collector turns into its error, in `?` order
CollectorSources ==
    [os       |-> <<"os_release", "proc_version", "os_age">>,
     hardware |-> <<"cpuinfo", "meminfo", "disk">>,
     packages |-> <<>>,
     status   |-> <<"uptime">>,
     user     |-> <<"hostname">>]

CollectorFails(c) ==
    \E i \in 1..Len(CollectorSources[c]) : CollectorSources[c][i] \in host

CollectorError(c) ==
    LET srcs == CollectorSources[c]
        i == CHOOSE k \in 1..Len(srcs) :
                /\ srcs[k] \in host
                /\ \A j \in 1..(k - 1) : srcs[j] \notin host
    IN srcs[i]

SnapshotFields ==
    <<"os.name", "os.kernel_version", "os.age",
      "cpu.brand", "gpu.primary", "gpu.all_gpus", "memory", "disk.usage",
      "system_packages", "flatpak_packages",
      "uptime_seconds", "uptime_formatted", "init_system", "battery_info",
      "desktop_environment", "editor", "shell", "terminal",
      "username", "hostname", "formatted_user_info">>

\* C3: for a fixed host state the value returned is the same under every
\* interleaving: the snapshot holds every collector's own fields, and when
\* collectors fail the error is that of the first failing collector in the
\* order os, hardware, packages, status, user.
C3_SameUnderEveryInterleaving ==
    Returned =>
        IF \E i \in 1..Len(Collectors) : CollectorFails(Collectors[i])
        THEN LET first == CHOOSE i \in 1..Len(Collectors) :
                            /\ CollectorFails(Collectors[i])
                            /\ \A j \in 1..(i - 1) :
                                ~CollectorFails(Collectors[j])
             IN /\ ret.err = CollectorError(Collectors[first])
                /\ ret.val = <<>>
        ELSE ret.err = "" /\ ret.val = SnapshotFields

\* C3 witness: two collectors failed and the error of the first was returned
C3_Witness ==
    /\ Returned
    /\ CollectorFails("os") /\ CollectorFails("user")
    /\ ret.err = "os_release"

-----------------------------------------------------------------------------
(* Claims about collect_gpu_info *)

GpuCollected == gpuInfo # NoGpuInfo

\* C4: after collect_gpu_info the list of all detected GPUs is never empty
\* (it holds "Unknown GPU" when nothing is detected) and the primary GPU is
\* its first entry.
C4_GpuListNeverEmpty ==
    GpuCollected =>
        /\ gpuInfo.all_gpus # <<>>
        /\ gpuInfo.primary = gpuInfo.all_gpus[1]

-----------------------------------------------------------------------------
(* Claims about render_output *)

Printed == rendered # None

ShowAllGpus == r_config.display.show_all_gpus = Some(TRUE)

Separator ==
    IF r_config.display.separator = None THEN ": "
    ELSE r_config.display.separator[1]

AsciiColorCode ==
    ResolveColorKey(r_config.colors, r_config.display.ascii_color).code

\* the colour escape of an optional colour key
ColourOf(opt) ==
    IF opt = None THEN RESET ELSE ResolveColorKey(r_config.colors, opt[1]).code

ValueOf(entry) == get_output_value(entry, r_system_data, r_files)

EndsWith(s, p) ==
    Len(s) >= Len(p) /\ SubSeq(s, Len(s) - Len(p) + 1, Len(s)) = p

\* the lines of a text, each without its line feed; what follows the last
\* line feed is not a line
LinesOf(text) ==
    LET feeds == Occurrences(text, "\n")
        nth(k) == CHOOSE p \in feeds : Cardinality({q \in feeds : q < p}) = k - 1
    IN [k \in 1..Cardinality(feeds) |->
            SubSeq(text, IF k = 1 THEN 1 ELSE nth(k - 1) + 1, nth(k) - 1)]

\* the text block: the output after the cursor restore that ends the image
TextBlock ==
    LET restore == Find(rendered[1].output, ESC \o "[u")
    IN IF restore = 0 THEN rendered[1].output
       ELSE From(rendered[1].output, restore + Len(ESC \o "[u"))

OutputLines == LinesOf(TextBlock)

\* the number of rendered items that come from the configured items before
\* the i-th, when every "gpu" item stands for n_gpus items
RECURSIVE ExpandedBefore(_, _, _)
ExpandedBefore(items, i, n_gpus) ==
    IF i <= 1 THEN 0
    ELSE ExpandedBefore(items, i - 1, n_gpus)
         + (IF items[i - 1].value = "gpu" THEN n_gpus ELSE 1)

\* C5: with show_all_gpus enabled every configured item whose value is "gpu"
\* is replaced by one item per detected GPU, in list order, the k-th showing
\* the k-th detected GPU, whatever the number of detected GPUs; the other
\* items keep their order; with show_all_gpus disabled the list is unchanged.
C5_GpuItemsExpanded ==
    Printed =>
        LET items == r_config.display.items
            gpus == r_system_data.all_gpus
            shown == rendered[1].rendered_items
        IN IF ~ShowAllGpus THEN shown = items
           ELSE /\ Len(shown) = ExpandedBefore(items, Len(items) + 1, Len(gpus))
                /\ \A i \in 1..Len(items) :
                    LET base == ExpandedBefore(items, i, Len(gpus))
                    IN IF items[i].value = "gpu"
                       THEN \A k \in 1..Len(gpus) :
                               /\ shown[base + k].key = items[i].key
                               /\ shown[base + k].type = items[i].type
                               /\ shown[base + k].color = items[i].color
                               /\ shown[base + k].value_color = items[i].value_color
                               /\ ValueOf(shown[base + k]) = gpus[k]
                       ELSE shown[base + 1] = items[i]

\* the text the item rule gives for an entry, after the artwork
RuleText(entry) ==
    IF entry.value = "" THEN ""
    ELSE "  " \o
         (IF entry.type = "text"
          THEN ColourOf(entry.color) \o ValueOf(entry) \o RESET
          ELSE IF entry.key = "" \/ entry.key = "user_info"
          THEN ColourOf(entry.value_color) \o ValueOf(entry) \o RESET
          ELSE ColourOf(entry.color) \o entry.key \o Separator \o RESET
               \o ColourOf(entry.value_color) \o ValueOf(entry) \o RESET)

AllSpaces(s) == \A i \in 1..Len(s) : SubSeq(s, i, i) = " "

\* C6: items and artwork are paired by position: with n rendered items and m
\* artwork lines the text block has max(n, m) lines; line i < n starts with
\* artwork line i (an empty one when i >= m) and ends with item i; lines
\* n..m-1 hold the remaining artwork lines, in order, and no item text.
C6_PositionalPairing ==
    Printed =>
        LET shown == rendered[1].rendered_items
            art == rendered[1].ascii_lines
            n == Len(shown)
            m == Len(art)
            lines == OutputLines
            artwork(i) == AsciiColorCode \o (IF i <= m THEN art[i] ELSE "")
        IN /\ Len(lines) = Max(n, m)
           /\ \A i \in 1..n :
                /\ StartsWith(lines[i], artwork(i))
                /\ EndsWith(lines[i], RuleText(shown[i]))
                /\ AllSpaces(SubSeq(lines[i], Len(artwork(i)) + 1,
                                    Len(lines[i]) - Len(RuleText(shown[i]))))
           /\ \A i \in (n + 1)..m :
                /\ StartsWith(lines[i], artwork(i))
                /\ AllSpaces(From(lines[i], Len(artwork(i)) + 1))

\* the artwork line beside position i (counted from 1): empty past the end
ArtLine(i) ==
    IF i <= Len(rendered[1].ascii_lines) THEN rendered[1].ascii_lines[i] ELSE ""

\* the line feeds the items before the i-th put inside their lines
RECURSIVE FeedsBefore(_)
FeedsBefore(i) ==
    IF i <= 1 THEN 0
    ELSE FeedsBefore(i - 1)
         + Cardinality(Occurrences(
               RuleText(rendered[1].rendered_items[i - 1]), "\n"))

\* the artwork text the output holds at position i: beside item i what lies
\* between the artwork colour and the item's text, after the items the line
\* without the artwork colour
EmittedArtwork(i) ==
    LET n == Len(rendered[1].rendered_items)
        line == IF i <= n THEN OutputLines[i + FeedsBefore(i)]
                ELSE OutputLines[i + FeedsBefore(n + 1)]
        text == IF i <= n
                THEN BeforeFirst(RuleText(rendered[1].rendered_items[i]), "\n")
                ELSE ""
    IN SubSeq(line, Len(AsciiColorCode) + 1, Len(line) - Len(text))

\* C7: every emitted artwork line, beside an item or after the items, has
\* the display width of the widest artwork line, whatever characters the
\* artwork holds.
C7_ArtworkWidthsEqual ==
    Printed =>
        \A i \in 1..Max(Len(rendered[1].rendered_items),
                        Len(rendered[1].ascii_lines)) :
            DisplayWidth(EmittedArtwork(i)) = MaxWidth(rendered[1].ascii_lines)

\* what the output holds for item i: the coloured, padded artwork line, the
\* text of the item rule and the line feed
Piece(i) ==
    AsciiColorCode
    \o PaddedAscii(ArtLine(i), MaxWidth(rendered[1].ascii_lines))
    \o RuleText(rendered[1].rendered_items[i]) \o "\n"

RECURSIVE PieceStart(_)
PieceStart(i) == IF i <= 1 THEN 1 ELSE PieceStart(i - 1) + Len(Piece(i - 1))

OsLine == "\\x1b[38;2;0;255;0mOS: \\x1b[0m\\x1b[0mTestOS 1.0\\x1b[0m"

\* C8: the text emitted for an item follows the item rule: nothing but the
\* artwork for an empty value; the coloured value and a reset for a text
\* item; the value in the value colour and a reset for an empty key or the
\* key user_info; else key colour, key, separator, reset, value colour,
\* value, reset.  For key "OS", colour #00FF00, no value colour, separator
\* ": " and value "TestOS 1.0" that text is OsLine.
C8_ItemLineRule ==
    Printed =>
        \A i \in 1..Len(rendered[1].rendered_items) :
            /\ SubSeq(TextBlock, PieceStart(i), PieceStart(i) + Len(Piece(i)) - 1)
                   = Piece(i)
            /\ /\ rendered[1].rendered_items[i] = OsEntry
               /\ Separator = ": "
               /\ r_system_data.os_name = "TestOS 1.0"
               => EndsWith(Piece(i), "  " \o OsLine \o "\n")

C8_Witness ==
    /\ Printed
    /\ Len(rendered[1].rendered_items) = 2
    /\ rendered[1].rendered_items[1].key = "user_info"
    /\ rendered[1].rendered_items[2] = OsEntry
    /\ Contains(rendered[1].output, OsLine)

ImageMode == use_image_mode(r_config)

ImageFails ==
    \/ r_config.display.image_path = None
    \/ r_files.image = None
    \/ ~r_files.image[1].encodes

Warned ==
    \E k \in 1..Len(rendered[1].stderr) :
        \/ rendered[1].stderr[k] = NoPathWarning
        \/ StartsWith(rendered[1].stderr[k], FailedWarning)

AsciiModeConfig == [r_config EXCEPT !.display.display_mode = Some("ascii")]

\* C10: in image or kitty mode, when the image cannot be opened or encoded or
\* no image_path is set, render_output writes a warning, puts no part of an
\* image escape sequence and no cursor save or restore into the output, and
\* prints exactly what ASCII mode prints.
C10_ImageFallsBackToAscii ==
    Printed /\ ImageMode /\ ImageFails =>
        /\ Warned
        /\ ~Contains(rendered[1].output, ESC \o "_G")
        /\ ~Contains(rendered[1].output, ESC \o "[s")
        /\ ~Contains(rendered[1].output, ESC \o "[u")
        /\ rendered[1].output
               = render_output(AsciiModeConfig, r_system_data, r_files).output
        /\ \A i \in 1..Len(rendered[1].rendered_items) :
               Contains(rendered[1].output,
                        RuleText(rendered[1].rendered_items[i]) \o "\n")

C10_Witness ==
    /\ Printed
    /\ ImageMode
    /\ r_config.display.image_path # None
    /\ r_files.image # None
    /\ ~r_files.image[1].encodes
    /\ rendered[1].rendered_items = <<OsEntry, BlankEntry>>
    /\ rendered[1].ascii_lines = Logo

-----------------------------------------------------------------------------
(* Claims about transmit_png *)

Transmitted == image_res # NoImageResult /\ image_res.err = ""

FinalImage ==
    resize_image(image_req.image[1], image_req.target_width,
                 image_req.target_height)

\* C9: the payload goes out as chunks of at most 4096 base64 characters;
\* each chunk follows a control prefix with the image size, the position and
\* the more-data flag; the flag is 1 on every chunk but the last and 0 on
\* the last.
C9_ChunkFraming ==
    Transmitted =>
        LET chunks == image_res.chunks
        IN \A i \in 1..Len(chunks) :
            /\ chunks[i].end - chunks[i].start <= 4096
            /\ chunks[i].end > chunks[i].start
            /\ chunks[i].s = FinalImage.width
            /\ chunks[i].v = FinalImage.height
            /\ chunks[i].x = image_req.offset_columns
            /\ chunks[i].y = chunks[1].y
            /\ chunks[i].m = (IF i < Len(chunks) THEN 1 ELSE 0)

C9_Witness ==
    /\ Transmitted
    /\ Len(image_res.chunks) = 3
    /\ image_res.chunks[1].m = 1
    /\ image_res.chunks[3].m = 0
    /\ image_res.chunks[3].end - image_res.chunks[3].start = 4096

-----------------------------------------------------------------------------
(* Claims about the pad values of render_image *)

ImageReturned == image_res # NoImageResult /\ image_res.info # None

CellMetrics ==
    IF terminal_cell_metrics(image_req.ws) = None THEN DefaultCellMetrics
    ELSE terminal_cell_metrics(image_req.ws)[1]

\* the pad values before the user's offsets are applied
BaseColumns ==
    IF image_req.configured_padding # None THEN image_req.configured_padding[1]
    ELSE Max(CeilDiv(FinalImage.width, CellMetrics.wnum, CellMetrics.wden), 1)
         + DEFAULT_GAP_COLUMNS

BaseRows ==
    IF image_req.configured_rows # None THEN image_req.configured_rows[1]
    ELSE Max(CeilDiv(FinalImage.height, CellMetrics.hnum, CellMetrics.hden), 1)

\* pad = max(floor, base + offset); a sum above i32::MAX is beyond every
\* value the model's pad can take
ClampedSum(base, offset, floor, pad) ==
    /\ pad >= floor
    /\ IF offset > 0 /\ base > I32_MAX - offset THEN FALSE
       ELSE pad = Max(floor, base + offset)

\* C11: for every base pad value and every signed offset the pad values
\* render_image returns are pad_columns = max(0, base_columns +
\* offset_columns) and pad_rows = max(1, base_rows + offset_rows), so
\* pad_columns is never below 0 and pad_rows never below 1.
C11_PadValuesClamped ==
    ImageReturned =>
        /\ ClampedSum(BaseColumns, image_req.offset_columns, 0,
                      image_res.info[1].pad_columns)
        /\ ClampedSum(BaseRows, image_req.offset_rows, 1,
                      image_res.info[1].pad_rows)

\* the same with the sums that leave the i32 range set aside
C11_ClampedWithinI32 ==
    (/\ ImageReturned
     /\ ~AddOverflows(BaseColumns, image_req.offset_columns)
     /\ ~AddOverflows(BaseRows, image_req.offset_rows)) =>
        C11_PadValuesClamped

-----------------------------------------------------------------------------
(* Claims about colour resolution *)

Called(fn) == call.fn = fn /\ result # None

HexDigit(c) == Len(c) = 1 /\ Contains("0123456789abcdefABCDEF", c)

\* `#RRGGBB`: a number sign and six hexadecimal digits
IsHexLiteral(c) ==
    /\ Len(c) = 7
    /\ SubSeq(c, 1, 1) = "#"
    /\ \A i \in 2..7 : HexDigit(SubSeq(c, i, i))

IsColorName(c) == ToLowercase(c) \in DOMAIN AnsiCodes

ChannelText(c, i) ==
    ToString(16 * HexValue(SubSeq(c, i, i)) + HexValue(SubSeq(c, i + 1, i + 1)))

\* the escape the two-step resolution gives a colour string
TwoStepCode(c) ==
    IF IsColorName(c) THEN ESC \o "[" \o AnsiCodes[ToLowercase(c)] \o "m"
    ELSE IF IsHexLiteral(c)
    THEN ESC \o "[38;2;" \o ChannelText(c, 2) \o ";" \o ChannelText(c, 4)
             \o ";" \o ChannelText(c, 6) \o "m"
    ELSE ESC \o "[0m"

\* C12: hex_to_ansi(c) returns the fixed escape for a known colour name or
\* alias (in any case), else the truecolor escape ESC[38;2;R;G;Bm for a
\* #RRGGBB literal, else the reset escape; the diagnostic listing the valid
\* names is emitted only in the last case.
C12_HexToAnsi ==
    Called("hex_to_ansi") =>
        /\ result[1].code = TwoStepCode(call.color)
        /\ result[1].err # <<>> <=>
                (~IsColorName(call.color) /\ ~IsHexLiteral(call.color))

\* the returned escape alone, for names and #RRGGBB literals
C12_EscapeOfNamesAndLiterals ==
    (Called("hex_to_ansi") /\ (IsColorName(call.color) \/ IsHexLiteral(call.color)))
        => result[1].code = TwoStepCode(call.color)

\* C13: a colour key is looked up in the colour table and the mapped value
\* resolved; a key absent from the table is itself resolved as a literal by
\* the same two steps (name, then #RRGGBB), so the key "#FF0000" with no
\* table entry gives the truecolor escape of (255, 0, 0).
C13_ColorKeyResolution ==
    Called("get_cached_color") =>
        result[1].code =
            IF call.color_key \in DOMAIN call.colors
            THEN TwoStepCode(call.colors[call.color_key])
            ELSE TwoStepCode(call.color_key)

\* the same for keys the table holds and keys that are colour names
C13_TableKeysAndNames ==
    (/\ Called("get_cached_color")
     /\ call.color_key \in DOMAIN call.colors \/ IsColorName(call.color_key))
        => C13_ColorKeyResolution

-----------------------------------------------------------------------------
(* Claims about get_shell *)

ShellReturned == walk # <<>> /\ walk.pc = "done"

ExeNameLower(pid) ==
    IF ProcEntry(pid).exe = None THEN None
    ELSE Some(ToLowercase(AfterLast(ProcEntry(pid).exe[1], "/")))

\* the shell names an ancestor is reported for: the generic wrappers are
\* passed over
ReportedShells == KnownShells \ {"sh", "dash"}

\* the nearest ancestor, from pid upwards and within `levels` processes,
\* whose executable is a reported shell; None when there is none
RECURSIVE NearestShell(_, _)
NearestShell(pid, levels) ==
    IF levels = 0 \/ pid = None THEN None
    ELSE IF ProcEntry(pid[1]).stat = None THEN None
    ELSE IF ExeNameLower(pid[1]) # None /\ ExeNameLower(pid[1])[1] \in ReportedShells
    THEN ExeNameLower(pid[1])
    ELSE NearestShell(ParentPidField(ProcEntry(pid[1]).stat[1]), levels - 1)

\* C14: get_shell returns the lowercased executable name of the nearest
\* ancestor, from the parent upwards and within 10 levels, whose executable
\* is a known shell, with terminal emulators, editors, swiftfetch itself and
\* the wrappers sh and dash passed over and never returned; with no such
\* ancestor it returns the basename of SHELL, "Unknown" when SHELL is unset.
C14_NearestShellOrEnv ==
    ShellReturned =>
        walk.ret =
            IF NearestShell(walk.start, 10) # None
            THEN NearestShell(walk.start, 10)
            ELSE IF walk.shell_env = None THEN Some("Unknown")
            ELSE Some(AfterLast(walk.shell_env[1], "/"))

\* the same on hosts where no process runs dash
C14_WithoutDash ==
    (\A p \in DOMAIN procs : ExeNameLower(p) # Some("dash"))
        => C14_NearestShellOrEnv

\* the steps get_shell has left at most: one to read /proc/self/stat, one
\* for each iteration of the loop, one to leave the loop and one to read
\* SHELL
StepsLeft ==
    CASE walk.pc = "start" -> 13
      [] walk.pc = "loop" -> 12 - walk.level
      [] walk.pc = "fallback" -> 1
      [] OTHER -> 0

\* C15: the walk terminates for every process table, tables with
\* parent-pid cycles, a process that is its own parent and missing stat or
\* exe entries included: it inspects at most 10 processes and then returns.
\* Every step lowers StepsLeft, which never falls below 0, and get_shell
\* has a step to take whenever it has not returned.
C15_WalkTerminates ==
    /\ [](/\ walk.level <= 10
          /\ StepsLeft >= 0
          /\ StepsLeft = 0 <=> (walk.pc = "done" /\ walk.ret # None)
          /\ walk.pc \in {"start", "loop", "fallback", "done"})
    /\ [][StepsLeft' < StepsLeft]_walk

\* a process that is its own parent, inspected ten times
C15_Witness ==
    /\ ShellReturned
    /\ walk.level = 10
    /\ walk.start = Some(1)
    /\ ParentPidField(procs[1].stat[1]) = Some(1)

-----------------------------------------------------------------------------
(* Claims about detect_wm_or_de *)

NonEmpty(opt) == opt # None /\ opt[1] # ""

Capitalised(s) == UpperChar(SubSeq(s, 1, 1)) \o Tail(s)

\* the names of the running processes
RunningNames ==
    IF call.proc = None THEN {}
    ELSE {Trim(call.proc[1][i].comm[1]) :
            i \in {j \in 1..Len(call.proc[1]) :
                     call.proc[1][j].pid /\ call.proc[1][j].comm # None}}

\* what a scan of the processes may report: a process named exactly as a
\* listed window manager, "GNOME" for a gnome-session* process
ScanReports ==
    {Capitalised(n) : n \in RunningNames \cap (WmNames \ {"gnome-session"})}
    \cup {"GNOME" : n \in {m \in RunningNames : StartsWith(m, "gnome-session")}}

\* C16: detect_wm_or_de gives the non-empty value of XDG_CURRENT_DESKTOP,
\* else of DESKTOP_SESSION, first letter capitalised; else "Wayland" if
\* WAYLAND_DISPLAY is set; else the name of a running process that equals a
\* listed window-manager name ("GNOME" for gnome-session*); else "Unknown".
\* A process whose name only starts with a listed name is not reported and
\* "Unknown" is returned only when no running process matches.
C16_WmOrDeChain ==
    Called("detect_wm_or_de") =>
        IF NonEmpty(call.xdg_current_desktop)
        THEN result[1] = Capitalised(call.xdg_current_desktop[1])
        ELSE IF NonEmpty(call.desktop_session)
        THEN result[1] = Capitalised(call.desktop_session[1])
        ELSE IF call.wayland_display # None THEN result[1] = "Wayland"
        ELSE IF ScanReports # {} THEN result[1] \in ScanReports
        ELSE result[1] = "Unknown"

\* the same where XDG_CURRENT_DESKTOP is not set to the empty string, the
\* session name starts with an ASCII letter, no process name only starts
\* with a listed name, and at most SCAN_LIMIT processes run
C16_WithinTheScan ==
    (/\ Called("detect_wm_or_de")
     /\ call.xdg_current_desktop # Some("")
     /\ call.desktop_session # Some("%toile")
     /\ \A n \in RunningNames :
            (\E wm \in WmNames : StartsWith(n, wm))
                => (n \in WmNames \/ StartsWith(n, "gnome-session"))
     /\ Cardinality(RunningNames) > 0 => Len(call.proc[1]) <= SCAN_LIMIT)
        => C16_WmOrDeChain

-----------------------------------------------------------------------------
(* Claims about detect_package_manager and detect_init_system *)

\* the second component of the first pair of `order` whose first component
\* is in `present`, None when there is none
FirstPresent(order, present) ==
    LET hits == {i \in 1..Len(order) : order[i][1] \cap present # {}}
    IN IF hits = {} THEN None
       ELSE Some(order[CHOOSE i \in hits : \A j \in hits : i <= j][2])

MarkerPriority ==
    <<<<{"/var/lib/pacman/local"}, "Pacman">>, <<{"/var/lib/dpkg/status"}, "Apt">>,
      <<{"/var/lib/rpm"}, "Dnf">>, <<{"/var/db/xbps"}, "Xbps">>,
      <<{"/var/db/pkg"}, "Portage">>>>

CommandPriority ==
    <<<<{"nix-store"}, "Nix">>, <<{"xbps-query"}, "Xbps">>, <<{"apt"}, "Apt">>,
      <<{"dnf", "yum"}, "Dnf">>, <<{"emerge"}, "Portage">>>>

\* C17: the package manager is the one of the first existing marker path in
\* the order pacman, dpkg, rpm, xbps, portage; only when no marker exists,
\* the one of the first present executable in the order nix-store,
\* xbps-query, apt, dnf or yum, emerge; with none present no manager is
\* selected and the system package count is 0.
C17_PackageManagerPriority ==
    Called("get_package_count") =>
        /\ result[1].manager =
                IF FirstPresent(MarkerPriority, call.paths) # None
                THEN FirstPresent(MarkerPriority, call.paths)
                ELSE FirstPresent(CommandPriority, call.commands)
        /\ (call.paths = {} /\ call.commands = {})
                => (result[1].manager = None /\ result[1].system_packages = 0)

\* a marker low in the order exists beside commands high in theirs
C17_Witness ==
    /\ Called("get_package_count")
    /\ call.paths = {"/var/db/xbps", "/var/db/pkg"}
    /\ call.commands = {"nix-store", "apt"}
    /\ result[1].manager = Some("Xbps")
    /\ result[1].system_packages = 7

InitPriority ==
    <<<<{"/run/systemd/system", "/usr/lib/systemd/systemd", "/etc/systemd/system"},
        "systemd">>,
      <<{"/sbin/openrc", "/usr/sbin/openrc"}, "OpenRC">>,
      <<{"/etc/runit"}, "runit">>, <<{"/etc/init.d"}, "SysV">>,
      <<{"/etc/s6"}, "s6">>>>

\* the name the marker paths decide, None when no marker exists
MarkedInit == FirstPresent(InitPriority, call.paths)

\* C18: detect_init_system returns the first init system, in the order
\* systemd, OpenRC, runit, SysV, s6, whose marker path exists, "Unknown"
\* when no marker exists; `systemctl --version` is run only as a last
\* resort, never while a marker path check could still decide the result
\* (as that last resort it may still declare systemd).
C18_InitSystemPriority ==
    Called("detect_init_system") =>
        /\ MarkedInit # None => result[1].init = MarkedInit[1]
        /\ MarkedInit = None =>
                result[1].init =
                    IF "systemctl" \in result[1].ran /\ call.succeeding # {}
                    THEN "systemd" ELSE "Unknown"
        /\ "systemctl" \in result[1].ran => MarkedInit = None

\* the name returned, on hosts where `systemctl --version` does not succeed
C18_NameWithoutSystemctl ==
    (Called("detect_init_system") /\ call.succeeding = {}) =>
        result[1].init = IF MarkedInit = None THEN "Unknown" ELSE MarkedInit[1]

-----------------------------------------------------------------------------
(* Claims about the order of the GPU list *)

\* the entries in detection order: the sysfs entries when there are any,
\* the lspci entries otherwise
DetectedGpus ==
    LET sysfs == IF gpuHost.drm = None THEN <<>> ELSE SysfsGpus(gpuHost.drm[1])
    IN IF sysfs # <<>> THEN sysfs
       ELSE IF gpuHost.lspci = None THEN <<>>
       ELSE LspciGpus(SelectSeq(gpuHost.lspci[1], IsGpuLine))

TaggedDiscrete(g) == EndsWith(g, TagDiscrete)

TaggedIntegrated(g) == EndsWith(g, TagIntegrated)

\* C19: in the list detect_all_gpus returns, on the sysfs path and on the
\* lspci path, every entry tagged [Discrete] precedes every entry tagged
\* [Integrated], whatever the device names are, and entries with the same
\* tag keep their detection order.
C19_DiscreteBeforeIntegrated ==
    (GpuCollected /\ DetectedGpus # <<>>) =>
        /\ \A i, j \in 1..Len(gpuInfo.all_gpus) :
                (/\ TaggedDiscrete(gpuInfo.all_gpus[i])
                 /\ TaggedIntegrated(gpuInfo.all_gpus[j])) => i < j
        /\ SelectSeq(gpuInfo.all_gpus, TaggedDiscrete)
                = SelectSeq(DetectedGpus, TaggedDiscrete)
        /\ SelectSeq(gpuInfo.all_gpus, TaggedIntegrated)
                = SelectSeq(DetectedGpus, TaggedIntegrated)

\* the order of the list, on hosts where no device name holds the word
\* "Integrated" itself
C19_WithPlainNames ==
    (/\ GpuCollected
     /\ DetectedGpus # <<>>
     /\ \A i \in 1..Len(DetectedGpus) :
            TaggedDiscrete(DetectedGpus[i]) => ~IsIntegratedEntry(DetectedGpus[i]))
    => gpuInfo.all_gpus = SelectSeq(DetectedGpus, TaggedDiscrete)
                          \o SelectSeq(DetectedGpus, TaggedIntegrated)

-----------------------------------------------------------------------------
(* Claims about panics of the readers and collectors *)

CallReturned == call.fn # "none" /\ result # None

\* the call ended in a panic
Panics ==
    CASE call.fn \in {"get_disk_usage", "read_first_line"} -> result[1] = Panic
      [] call.fn = "detect_wm_or_de" -> result[1] = PANIC
      [] OTHER -> FALSE

\* C20: no reader or collector step panics: for every file content,
\* environment value and subprocess output (a `df` line of exactly four
\* fields, an empty or over-long first line, a desktop-session name whose
\* first character has several bytes) the call returns a value or an error
\* value.
C20_NoPanic == CallReturned => ~Panics

\* the calls that panic are get_disk_usage on the df path, when the first
\* line after the header with four fields or more has exactly four, and
\* detect_wm_or_de on a session name whose first character has several
\* bytes; read_first_line returns Ok or Err for every content
C20_WherePanicsHappen ==
    (CallReturned /\ Panics) =>
        \/ /\ call.fn = "get_disk_usage"
           /\ call.statvfs = None
           /\ call.df # None
           /\ \E i \in 2..Len(call.df[1]) :
                /\ Len(SplitWhitespace(call.df[1][i])) = 4
                /\ \A j \in 2..(i - 1) : Len(SplitWhitespace(call.df[1][j])) < 4
        \/ /\ call.fn = "detect_wm_or_de"
           /\ \E name \in {call.xdg_current_desktop, call.desktop_session} :
                name # None /\ name[1] # "" /\ CharBytes(SubSeq(name[1], 1, 1)) > 1

-----------------------------------------------------------------------------
(* Claims about the numbers of the snapshot *)

ReturnedOk(fn) == Called(fn) /\ result[1].err = ""

\* C21: the numeric fields of the snapshot are never negative: for every
\* /proc/meminfo content (MemTotal missing, unparsable or smaller than
\* MemAvailable included) the used memory, total - available, is >= 0, and
\* for every /proc/uptime content the uptime in seconds is >= 0.
C21_NeverNegative ==
    /\ ReturnedOk("read_memory_info") =>
            result[1].val.total_gb >= 0 /\ result[1].val.used_gb >= 0
    /\ ReturnedOk("collect_system_status") => result[1].val.uptime_seconds >= 0

\* the uptime is never negative, and the used memory is negative exactly
\* when the MemTotal value read is below the MemAvailable value read
C21_NegativeOnlyBelowAvailable ==
    /\ ReturnedOk("collect_system_status") => result[1].val.uptime_seconds >= 0
    /\ ReturnedOk("read_memory_info") =>
        LET lines == call.meminfo[1]
            first(prefix) ==
                IF \E i \in 1..Len(lines) : StartsWith(lines[i], prefix)
                THEN extract_memory_from_line(
                        lines[CHOOSE i \in 1..Len(lines) :
                                /\ StartsWith(lines[i], prefix)
                                /\ \A j \in 1..(i - 1) : ~StartsWith(lines[j], prefix)])
                ELSE 0
        IN /\ result[1].val.total_gb = first("MemTotal")
           /\ result[1].val.used_gb = first("MemTotal") - first("MemAvailable")

-----------------------------------------------------------------------------
(* Claims about the disk summary *)

\* the text before the suffix, its last character
SizeSuffix(text) == SubSeq(text, Len(text), Len(text))

SizeNumber(text) == SubSeq(text, 1, Len(text) - 1)

\* the suffix the decimal thresholds choose
ThresholdSuffix(bytes) ==
    IF ~BigLess(bytes, Big(MEGA, 0)) THEN "T"
    ELSE IF ~BigLess(bytes, Big(1000, 0)) THEN "G"
    ELSE IF ~BigLess(bytes, Big(1, 0)) THEN "M"
    ELSE "K"

UnitOf(suffix) ==
    CASE suffix = "T" -> Big(MEGA, 0)
      [] suffix = "G" -> Big(1000, 0)
      [] suffix = "M" -> Big(1, 0)

\* text is a number with one decimal, the nearest to bytes / unit:
\* (2t - 1) * unit <= 20 * bytes <= (2t + 1) * unit for its tenths t
NearestOneDecimal(text, bytes, unit) ==
    LET whole == BeforeFirst(text, ".")
        t == 10 * DecimalValue(whole) + DecimalValue(From(text, Len(whole) + 2))
    IN /\ Len(text) = Len(whole) + 2
       /\ whole # ""
       /\ DecimalValue(whole) >= 0
       /\ DecimalValue(From(text, Len(whole) + 2)) >= 0
       /\ ~BigLess(BigTimes(bytes, 20), BigTimes(unit, 2 * t - 1))
       /\ ~BigLess(BigTimes(unit, 2 * t + 1), BigTimes(bytes, 20))

\* the rule of the formatter: suffix by decimal thresholds, one decimal
\* except for K, which is the whole number of 1024-byte units
SizeRule(text, bytes) ==
    /\ SizeSuffix(text) = ThresholdSuffix(bytes)
    /\ IF ThresholdSuffix(bytes) = "K"
       THEN SizeNumber(text) = ToString(bytes.lo \div 1024)
       ELSE NearestOneDecimal(SizeNumber(text), bytes, UnitOf(SizeSuffix(text)))

FormatSizeOf(bytes) == Called("format_size") /\ call.bytes = bytes

\* C22 as stated: the disk size formatter chooses the suffix by decimal
\* thresholds (>= 10^12 T, >= 10^9 G, >= 10^6 M, else K) with one decimal
\* place except for K; 1_500_000_000_000 gives "1.5T", 2_000_000_000 gives
\* "2.0G", 500_000 gives "0.5M" and 2048 gives "2K".
C22_AsStated ==
    /\ Called("format_size") => SizeRule(result[1], call.bytes)
    /\ FormatSizeOf(Big(1500000, 0)) => result[1] = "1.5T"
    /\ FormatSizeOf(Big(2000, 0)) => result[1] = "2.0G"
    /\ FormatSizeOf(Big(0, 500000)) => result[1] = "0.5M"
    /\ FormatSizeOf(Big(0, 2048)) => result[1] = "2K"

\* C22, amended: the disk size formatter chooses the suffix by decimal
\* thresholds (>= 10^12 T, >= 10^9 G, >= 10^6 M, else K) with one decimal
\* place except for K, where it counts units of 1024 bytes;
\* 1_500_000_000_000 gives "1.5T", 2_000_000_000 gives "2.0G", 500_000,
\* which is below 10^6, gives "488K", and 2048 gives "2K".
C22_FormatSize ==
    /\ Called("format_size") => SizeRule(result[1], call.bytes)
    /\ FormatSizeOf(Big(1500000, 0)) => result[1] = "1.5T"
    /\ FormatSizeOf(Big(2000, 0)) => result[1] = "2.0G"
    /\ FormatSizeOf(Big(0, 500000)) => result[1] = "488K"
    /\ FormatSizeOf(Big(0, 2048)) => result[1] = "2K"

C22_Witness == FormatSizeOf(Big(0, 500000)) /\ result[1] = "488K"

StatvfsSucceeded == ReturnedOk("get_disk_usage") /\ call.statvfs # None

TotalBytes == BigProduct(call.statvfs[1].f_blocks, call.statvfs[1].f_frsize)

AvailableBytes == BigProduct(call.statvfs[1].f_bavail, call.statvfs[1].f_frsize)

\* the three parts of "{used} / {total} ({percent}%)"
UsedText == BeforeFirst(result[1].val, " / ")

TotalText ==
    BeforeFirst(From(result[1].val, Find(result[1].val, " / ") + 3), " (")

PercentText ==
    BeforeFirst(From(result[1].val, Find(result[1].val, " (") + 2), "%)")

-----------------------------------------------------------------------------
(* Claims about collect_system_status *)

StatusOf(seconds) ==
    ReturnedOk("collect_system_status") /\ result[1].val.uptime_seconds = seconds

\* the rule of format_uptime: "{h}h {mm}m" with two digits of minutes when
\* h > 0, "{m}m" otherwise, the minutes below 60
UptimeRule ==
    ReturnedOk("collect_system_status") =>
        LET sec == result[1].val.uptime_seconds
            h == sec \div 3600
            mm == (sec % 3600) \div 60
            text == result[1].val.uptime_formatted
        IN /\ sec >= 0
           /\ mm < 60
           /\ IF h > 0
              THEN /\ text = ToString(h) \o "h "
                             \o SubSeq(text, Len(text) - 2, Len(text))
                   /\ Len(SubSeq(text, Len(text) - 2, Len(text) - 1)) = 2
                   /\ DecimalValue(SubSeq(text, Len(text) - 2, Len(text) - 1)) = mm
                   /\ SubSeq(text, Len(text), Len(text)) = "m"
              ELSE text = ToString(sec \div 60) \o "m"

\* C24 as stated: format_uptime(s) is "{h}h {mm}m" with h = s div 3600 and
\* mm = (s mod 3600) div 60 in two digits when h > 0, "{m}m" with
\* m = s div 60 otherwise; the minutes are below 60; format_uptime(0) = "0m",
\* format_uptime(59) = "59m", format_uptime(3661) = "1h 01m".
C24_AsStated ==
    /\ UptimeRule
    /\ StatusOf(0) => result[1].val.uptime_formatted = "0m"
    /\ StatusOf(59) => result[1].val.uptime_formatted = "59m"
    /\ StatusOf(3661) => result[1].val.uptime_formatted = "1h 01m"

\* C24, amended: format_uptime(s) is "{h}h {mm}m" with h = s div 3600 and
\* mm = (s mod 3600) div 60 in two digits when h > 0, "{m}m" with
\* m = s div 60 otherwise; the minutes are below 60; format_uptime(0) = "0m",
\* format_uptime(59) = "0m" (59 seconds are no whole minute),
\* format_uptime(3661) = "1h 01m".
C24_FormatUptime ==
    /\ UptimeRule
    /\ StatusOf(0) => result[1].val.uptime_formatted = "0m"
    /\ StatusOf(59) => result[1].val.uptime_formatted = "0m"
    /\ StatusOf(3661) => result[1].val.uptime_formatted = "1h 01m"

C24_Witness == StatusOf(59) /\ result[1].val.uptime_formatted = "0m"

\* no entry of the power-supply tree is a BAT* entry whose capacity and
\* status can both be read
NoBatteryEntry ==
    \/ call.power_supply = None
    \/ \A i \in 1..Len(call.power_supply[1]) :
            LET e == call.power_supply[1][i]
            IN ~StartsWith(e.name, "BAT") \/ e.capacity = None \/ e.status = None

\* C25: when no BAT* entry with readable capacity and status exists under
\* the power-supply tree, the failure of the battery collector is absorbed
\* inside collect_system_status: the battery field is "No battery" and no
\* error is propagated, collect_system_status succeeds whenever its
\* uptime read does.
C25_NoBatteryAbsorbed ==
    (Called("collect_system_status") /\ NoBatteryEntry) =>
        /\ result[1].err = read_uptime(call.uptime).err
        /\ result[1].err # "No battery found"
        /\ result[1].err = "" => result[1].val.battery_info = "No battery"

\* the tree holds BAT0 without a readable capacity, and the status is
\* collected
C25_Witness ==
    /\ ReturnedOk("collect_system_status")
    /\ NoBatteryEntry
    /\ call.power_supply # None
    /\ \E i \in 1..Len(call.power_supply[1]) :
            StartsWith(call.power_supply[1][i].name, "BAT")
    /\ result[1].val.battery_info = "No battery"

-----------------------------------------------------------------------------
(* Claims about the AMD bracket resolver *)

Resolved == Called("resolve_amd_gpu_range")

\* C26: the AMD bracket resolver, given bracket content that lists several
\* SKUs separated by " / ", returns the trimmed text after the last " / ",
\* and the content unchanged when it holds no " / "; "Radeon RX 7700 XT /
\* 7800 XT" resolves to "7800 XT".  parse_amd_gpu names the same text after
\* "AMD " when the bracket holds "Radeon".
C26_TrailingSkuWins ==
    Resolved =>
        LET content == call.bracket_content
        IN /\ IF Contains(content, " / ")
              THEN \E i \in 1..(Len(content) - 2) :
                        /\ SubSeq(content, i, i + 2) = " / "
                        /\ ~Contains(From(content, i + 3), " / ")
                        /\ result[1] = Trim(From(content, i + 3))
              ELSE result[1] = content
           /\ content = "Radeon RX 7700 XT / 7800 XT" => result[1] = "7800 XT"
           /\ Contains(content, "Radeon") =>
                parse_amd_gpu("Navi 32 [" \o content \o "] (rev c8)")
                    = Some("AMD " \o result[1])

C26_Witness ==
    /\ Resolved
    /\ call.bracket_content = "Radeon RX 7700 XT / 7800 XT"
    /\ result[1] = "7800 XT"

-----------------------------------------------------------------------------
(* Claims about the termination of collect_system_info *)

\* the leaves whose subprocess never terminates on this host
HungLeaves == {n \in DOMAIN Subprocess : Subprocess[n] \in host}

\* some step of the caller or of a worker is possible
CanStep ==
    \/ pc = "calling"
    \/ pc = "blocked" /\ task["root"] = "done"
    \/ \E w \in Workers :
        \/ ~Busy(w) /\ task["root"] = "injected"
        \/ Busy(w) /\ Top(w) \in Leaves \ HungLeaves
        \/ Busy(w) /\ Top(w) = "status" /\ task["status"] = "running"
        \/ Waiting(w) /\ JoinReady(task, Top(w))
        \/ \E v \in Workers : w # v /\ (~Busy(w) \/ Waiting(w)) /\ v.dq # <<>>

\* how far a task is from done
Rank(state) ==
    CASE state = "new" -> 4
      [] state \in {"injected", "queued"} -> 3
      [] state = "running" -> 2
      [] state = "forked" -> 1
      [] state = "done" -> 0

\* how far the call itself is from its return
PcRank ==
    CASE pc = "calling" -> 2
      [] pc = "blocked" -> 1
      [] OTHER -> 0

\* the moves that bring a task nearer to done
Moves ==
    {m \in {"new", "injected", "queued", "running", "forked", "done"}
           \X {"new", "injected", "queued", "running", "forked", "done"} :
        Rank(m[1]) > Rank(m[2])}

\* a step moves a task or the call forward and none of them backward: the
\* ranks being bounded below, only finitely many steps can follow
Forward ==
    /\ \A n \in Nodes : task'[n] = task[n] \/ <<task[n], task'[n]>> \in Moves
    /\ pc' = pc \/ PcRank' < PcRank
    /\ task' # task \/ pc' # pc

\* C27: if every collector eventually returns, collect_system_info
\* eventually returns a snapshot or an error and the nested fork-join never
\* deadlocks: until the call has returned a step is possible, and every
\* step brings the call nearer to its return (it moves a task or the call
\* forward and none backward).  A collector that never
\* returns, a hung subprocess, keeps the call from ever returning, as there
\* is no timeout and no cancellation: the call returns only if no leaf with
\* a hung subprocess was ever started.
C27_ReturnsUnlessHung ==
    /\ [](/\ (HungLeaves = {} /\ ~Returned) => CanStep
          /\ Returned => ret # NoRes
          /\ Returned => \A n \in HungLeaves : task[n] = "new" /\ "uptime" \in host
          /\ (\E n \in HungLeaves : task[n] # "new") => ~Returned)
    /\ [][Forward]_collectVars

\* a call that returned the snapshot, every leaf having returned
C27_Witness ==
    /\ Returned
    /\ HungLeaves = {}
    /\ ret.err = ""
    /\ \A n \in Leaves : task[n] = "done"

-----------------------------------------------------------------------------
(* Claims about the chunks and the placement of transmit_png *)

\* the length of the base64 text of the image that was encoded
EncodedLength == EncodedLen(FinalImage.png_len)

\* C28: the chunk payloads, in the order they are written, are the base64
\* text of the image from its first character to its last with nothing
\* lost, doubled or out of order; every chunk is non-empty, every chunk but
\* the last holds exactly 4096 characters and there are
\* ceil(length / 4096) chunks.
C28_ChunksCoverTheEncoding ==
    Transmitted =>
        LET chunks == image_res.chunks
        IN /\ Len(chunks) = (EncodedLength + 4095) \div 4096
           /\ chunks # <<>>
           /\ chunks[1].start = 0
           /\ chunks[Len(chunks)].end = EncodedLength
           /\ \A i \in 1..Len(chunks) : chunks[i].end > chunks[i].start
           /\ \A i \in 1..(Len(chunks) - 1) :
                /\ chunks[i + 1].start = chunks[i].end
                /\ chunks[i].end - chunks[i].start = 4096

\* three chunks, the last one shorter than the others
C28_Witness ==
    /\ Transmitted
    /\ Len(image_res.chunks) = 3
    /\ image_res.chunks[2].end - image_res.chunks[2].start = 4096
    /\ image_res.chunks[3].end - image_res.chunks[3].start = 4
    /\ image_res.chunks[3].end = EncodedLength

\* C29: the placement offsets in the control prefix of every chunk, x (the
\* column offset) and y (the vertical nudge plus the row offset), are never
\* negative, whatever image_offset_columns and image_offset_rows are set
\* to.
C29_OffsetsNeverNegative ==
    Transmitted =>
        \A i \in 1..Len(image_res.chunks) :
            /\ image_res.chunks[i].x >= 0
            /\ image_res.chunks[i].y >= 0

\* what the prefix holds: x is the configured column offset as it is, y is
\* the i32 sum of the nudge and the configured row offset; they are
\* negative only for a negative offset or a sum that left the i32 range
C29_OffsetsAsConfigured ==
    Transmitted =>
        \A i \in 1..Len(image_res.chunks) :
            /\ image_res.chunks[i].x = image_req.offset_columns
            /\ image_res.chunks[i].y =
                    AddI32(compute_vertical_offset_rows(BaseRows),
                           image_req.offset_rows)
            /\ image_res.chunks[i].y < 0 =>
                    image_req.offset_rows < 0 \/ image_res.overflow

-----------------------------------------------------------------------------
(* Claims about the parent links get_shell follows *)

\* the parent pid a stat record names (proc(5)): the name ends at the last
\* `)` of the record, the state follows it and the parent pid is next
StatParentPid(stat_content) ==
    LET tokens == SplitWhitespace(AfterLast(stat_content, ")"))
    IN IF Len(tokens) < 2 THEN None ELSE ParseU32(tokens[2])

\* an iteration of the loop that went on to the next process
MovedOn ==
    /\ walk.pc = "loop"
    /\ walk'.pc = "loop"
    /\ walk'.level = walk.level + 1

\* C30: at every step of the walk the process visited next is the one the
\* parent-pid field of the current process's stat record names, whatever
\* the name of the process is, names with spaces or parentheses included.
C30_FollowsParentPid ==
    [][MovedOn =>
        walk'.current_pid = StatParentPid(procs[walk.current_pid[1]].stat[1])]_walk

\* the same for the processes whose name holds no white space; for a name
\* with white space the walk takes the fourth token of the record, whatever
\* field that is
C30_NamesWithoutSpaces ==
    [][MovedOn =>
        LET stat_content == procs[walk.current_pid[1]].stat[1]
        IN /\ walk'.current_pid = ParentPidField(stat_content)
           /\ Len(SplitWhitespace(stat_content)) = 7 =>
                walk'.current_pid = StatParentPid(stat_content)]_walk

====
